---- MODULE Spec2Model ----
(***************************************************************************)
(* A model of src/src/Bbox.ts (class Bbox).                                *)
(*                                                                         *)
(* Numbers.  Every number of the model is an integer counting tenths of a  *)
(* length unit: the model's 4 is the program's 0.4, the model's 80 is the  *)
(* program's 8.  All coordinates and amounts fed to the program are even,  *)
(* so the halving in center() is exact.                                    *)
(*                                                                         *)
(* Objects.  A Bbox instance is a record of its three data fields          *)
(* (_ocBbox, bounds, position).  null / undefined fields are the empty     *)
(* tuple NULL; a point or vector is the tuple <<x, y, z>>; bounds is the   *)
(* tuple <<xmin, xmax, ymin, ymax, zmin, zmax>> (index i of the program is *)
(* index i+1 here).                                                        *)
(***************************************************************************)
EXTENDS Integers, Sequences, FiniteSets, TLC

VARIABLES box, call, grown, coll, cop, calls

vars == <<box, call, grown, coll, cop, calls>>

----------------------------------------------------------------------------
(* Bounds of the model *)

\* each axis has the MaxCoord + 1 coordinates c, c + 0.4, ..., c + 0.4 * MaxCoord
MaxCoord == 2
\* number of enlarged() calls along one chain of adopted results
MaxEnlarge == 1

----------------------------------------------------------------------------
(* Values *)

NULL == <<>>

\* The grids of the three axes are offset against each other by 0.2, so
\* that the six bounds of a box spanning an axis's whole grid all differ.
XCoords == {4 * i : i \in 0..MaxCoord}
YCoords == {4 * i + 2 : i \in 0..MaxCoord}
ZCoords == {4 * i + 4 : i \in 0..MaxCoord}
Points == XCoords \X YCoords \X ZCoords

\* corner points of the Bboxes handed to added() as its argument
ArgPoints == {4, 12} \X {6, 14} \X {8, 16}

\* amounts handed to enlarged()
Amounts == {-2, 2, 4}

\* const TOLERANCE_2D = 0.4
TOLERANCE_2D == 4

\* this._oc.SHAPE_TOLERANCE: the kernel's shape tolerance, an epsilon far
\* below the 0.1 resolution of the model's numbers; in tenths it is 0
\* (d <= epsilon holds of a multiple d of 0.1 exactly when d <= 0).
SHAPE_TOLERANCE == 0

----------------------------------------------------------------------------
(* Collaborators: Vector / Point arithmetic and the kernel's Bnd_Box *)

\* Vector.distance(other), squared (its square root is 0 exactly when it is 0)
distance2(u, v) ==
    (u[1] - v[1]) * (u[1] - v[1]) + (u[2] - v[2]) * (u[2] - v[2])
        + (u[3] - v[3]) * (u[3] - v[3])

\* Vector.round(): rounds each component to the tolerance's decimals; every
\* number of the model is a multiple of 0.1, which the rounding leaves as it is
round(v) == <<v[1], v[2], v[3]>>

\* Vector.subtracted(other), Vector.added(other)
subtracted(u, v) == <<u[1] - v[1], u[2] - v[2], u[3] - v[3]>>
vecAdded(u, v) == <<u[1] + v[1], u[2] + v[2], u[3] + v[3]>>

\* new oc.Bnd_Box_2(pmin, pmax): the kernel keeps the two corners it is given
Bnd_Box_2(pmin, pmax) == <<pmin, pmax>>
\* new oc.Bnd_Box_1(): the void box
Bnd_Box_1 == <<NULL, NULL>>
CornerMin(oc) == oc[1]
CornerMax(oc) == oc[2]
IsVoid(oc) == oc[1] = NULL

----------------------------------------------------------------------------
(* class Bbox *)

\* the fields of a fresh instance, before the constructor's body runs
NewInstance == [ocBbox |-> NULL, bounds |-> NULL, position |-> NULL]

\* center(): Point
center(this) ==
    LET xmin == this.bounds[1]
        xmax == this.bounds[2]
        ymin == this.bounds[3]
        ymax == this.bounds[4]
        zmin == this.bounds[5]
        zmax == this.bounds[6]
    IN  <<xmin + (xmax - xmin) \div 2,
          ymin + (ymax - ymin) \div 2,
          zmin + (zmax - zmin) \div 2>>

\* a plausible slip in setBounds: the z pair written in the wrong order
setBounds_zSwapped(this) ==
    LET mn == round(CornerMin(this.ocBbox))
        mx == round(CornerMax(this.ocBbox))
    IN  [this EXCEPT !.bounds = <<mn[1], mx[1], mn[2], mx[2], mx[3], mn[3]>>]

\* setBounds(): bounds from the kernel box's corners
setBounds(this) ==
    LET mn == round(CornerMin(this.ocBbox))
        mx == round(CornerMax(this.ocBbox))
    IN  [this EXCEPT !.bounds = <<mn[1], mx[1], mn[2], mx[2], mn[3], mx[3]>>]

\* updateFromOcBbox()
updateFromOcBbox(this) ==
    LET t == setBounds(this)
    IN  [t EXCEPT !.position = center(t)]

\* a plausible slip in create: the check for coincident points left out
create_noCoincidenceCheck(this, minv, maxv) ==
    LET minX == IF minv[1] < maxv[1] THEN minv[1] ELSE maxv[1]
        maxX == IF maxv[1] > minv[1] THEN maxv[1] ELSE minv[1]
        minY == IF minv[2] < maxv[2] THEN minv[2] ELSE maxv[2]
        maxY == IF maxv[2] > minv[2] THEN maxv[2] ELSE minv[2]
        minZ == IF minv[3] < maxv[2] THEN minv[3] ELSE maxv[3]
        maxZ == IF maxv[3] > minv[3] THEN maxv[3] ELSE minv[3]
        minVec == <<minX, minY, minZ>>
        maxVec == <<maxX, maxY, maxZ>>
        oc == Bnd_Box_2(minVec, maxVec)
        t1 == setBounds([this EXCEPT !.ocBbox = oc])
    IN  IF IsVoid(oc)
        THEN [this |-> t1, ret |-> "undefined"]
        ELSE [this |-> updateFromOcBbox(t1), ret |-> "undefined"]

\* create(min, max): the instance afterwards and the value returned
\* (null on the early return, undefined when the body runs to its end).
\* The arguments are points, which @checkInput hands on as Vectors with the
\* same x, y, z; sharedPlanes() only feeds the log line and is left out.
create(this, minv, maxv) ==
    LET minX == IF minv[1] < maxv[1] THEN minv[1] ELSE maxv[1]
        maxX == IF maxv[1] > minv[1] THEN maxv[1] ELSE minv[1]
        minY == IF minv[2] < maxv[2] THEN minv[2] ELSE maxv[2]
        maxY == IF maxv[2] > minv[2] THEN maxv[2] ELSE minv[2]
        \* line 54 compares minv.z with maxv.y
        minZ == IF minv[3] < maxv[2] THEN minv[3] ELSE maxv[3]
        maxZ == IF maxv[3] > minv[3] THEN maxv[3] ELSE minv[3]
        minVec == <<minX, minY, minZ>>
        maxVec == <<maxX, maxY, maxZ>>
    IN  IF distance2(minVec, maxVec) = 0
        THEN [this |-> this, ret |-> "null"]
        ELSE LET oc == Bnd_Box_2(minVec, maxVec)
                 t1 == setBounds([this EXCEPT !.ocBbox = oc])
             IN  IF IsVoid(oc)
                 THEN [this |-> t1, ret |-> "undefined"]
                 ELSE [this |-> updateFromOcBbox(t1), ret |-> "undefined"]

\* constructor(min, max): the instance that new Bbox(min, max) yields
constructor(minp, maxp) ==
    IF minp = NULL /\ maxp = NULL
    THEN [NewInstance EXCEPT !.ocBbox = Bnd_Box_1]
    ELSE create(NewInstance, minp, maxp).this

\* min(), max(): Point
min(this) == <<this.bounds[1], this.bounds[3], this.bounds[5]>>
max(this) == <<this.bounds[2], this.bounds[4], this.bounds[6]>>

\* copy()
copy(this) == constructor(min(this), max(this))

\* height(), depth(), width()
height(this) == this.bounds[6] - this.bounds[5]
depth(this) == this.bounds[4] - this.bounds[3]
width(this) == this.bounds[2] - this.bounds[1]

\* isPoint()
isPoint(this) ==
    /\ height(this) <= SHAPE_TOLERANCE
    /\ width(this) <= SHAPE_TOLERANCE
    /\ depth(this) <= SHAPE_TOLERANCE

\* is2D()
is2D(this) ==
    \/ height(this) <= TOLERANCE_2D + SHAPE_TOLERANCE
    \/ width(this) <= TOLERANCE_2D + SHAPE_TOLERANCE
    \/ depth(this) <= TOLERANCE_2D + SHAPE_TOLERANCE

\* axisMissingIn2D(): "null", "x", "y" or "z"
axisMissingIn2D(this) ==
    IF ~is2D(this) THEN "null"
    ELSE IF height(this) <= SHAPE_TOLERANCE THEN "z"
    ELSE IF width(this) <= SHAPE_TOLERANCE THEN "x"
    ELSE "y"

\* the index of a Vector's component x, y, z in its tuple
AxisIndex == [x |-> 1, y |-> 2, z |-> 3]

\* enlarged(amount)
enlarged(this, amount) ==
    LET amountVec0 == <<amount, amount, amount>>
        amountVec == IF is2D(this)
                     THEN [amountVec0 EXCEPT ![AxisIndex[axisMissingIn2D(this)]] = 0]
                     ELSE amountVec0
    IN  constructor(subtracted(min(this), amountVec), vecAdded(max(this), amountVec))

\* added(other)
added(this, other) ==
    LET combinedBounds ==
            [i \in 1..6 |->
                IF (i - 1) % 2 = 0
                THEN IF this.bounds[i] < other.bounds[i]
                     THEN this.bounds[i] ELSE other.bounds[i]
                ELSE IF this.bounds[i] > other.bounds[i]
                     THEN this.bounds[i] ELSE other.bounds[i]]
    IN  constructor(<<combinedBounds[1], combinedBounds[3], combinedBounds[5]>>,
                    <<combinedBounds[2], combinedBounds[4], combinedBounds[6]>>)

\* reading this.bounds[i] of an instance whose bounds are null throws a TypeError
Throws(this) == this.bounds = NULL

\* _containsBbox(other) with one comparison made strict
_containsBbox_strictMin(this, other) ==
    /\ this.bounds[1] < other.bounds[1] /\ this.bounds[2] >= other.bounds[2]
    /\ this.bounds[3] <= other.bounds[3] /\ this.bounds[4] >= other.bounds[4]
    /\ this.bounds[5] <= other.bounds[5] /\ this.bounds[6] >= other.bounds[6]

\* _containsBbox(other)
_containsBbox(this, other) ==
    /\ this.bounds[1] <= other.bounds[1] /\ this.bounds[2] >= other.bounds[2]
    /\ this.bounds[3] <= other.bounds[3] /\ this.bounds[4] >= other.bounds[4]
    /\ this.bounds[5] <= other.bounds[5] /\ this.bounds[6] >= other.bounds[6]

\* a Vertex at point p, and a Shape of another type with bounding box b, as
\* contains() sees them: type(), the x, y, z of a Vertex, bbox()
Vertex(p) == [type |-> "Vertex", at |-> p, bbox |-> NewInstance]
Solid(b) == [type |-> "Solid", at |-> NULL, bbox |-> b]

\* contains(other), other a Shape
contains(this, other) ==
    IF other.type = "Vertex"
    THEN /\ other.at[1] >= this.bounds[1] /\ other.at[1] <= this.bounds[2]
         /\ other.at[2] >= this.bounds[3] /\ other.at[1] <= this.bounds[4]
         /\ other.at[3] >= this.bounds[5] /\ other.at[3] <= this.bounds[6]
    ELSE _containsBbox(this, other.bbox)

----------------------------------------------------------------------------
(* Strings.  A string the program searches in is the tuple of its          *)
(* characters, so that includes() and toLowerCase() work on characters.    *)

\* the characters of the six side keywords
SideChars ==
    [left   |-> <<"l", "e", "f", "t">>,
     right  |-> <<"r", "i", "g", "h", "t">>,
     front  |-> <<"f", "r", "o", "n", "t">>,
     back   |-> <<"b", "a", "c", "k">>,
     top    |-> <<"t", "o", "p">>,
     bottom |-> <<"b", "o", "t", "t", "o", "m">>]

\* the upper-case letters that occur in the model's strings
LowerOf ==
    [L |-> "l", E |-> "e", F |-> "f", T |-> "t", R |-> "r", I |-> "i",
     G |-> "g", H |-> "h", O |-> "o", N |-> "n", B |-> "b", A |-> "a",
     C |-> "c", K |-> "k", P |-> "p", M |-> "m"]

\* String.prototype.toLowerCase
toLowerCase(s) ==
    [i \in 1..Len(s) |-> IF s[i] \in DOMAIN LowerOf THEN LowerOf[s[i]] ELSE s[i]]

\* String.prototype.includes
includes(s, sub) ==
    \E i \in 0..(Len(s) - Len(sub)) : SubSeq(s, i + 1, i + Len(sub)) = sub

\* SIDE_TO_AXIS of ./internal, in the order of its entries
SIDE_TO_AXIS ==
    <<<<"left", "-x">>, <<"right", "x">>, <<"front", "-y">>, <<"back", "y">>,
      <<"top", "z">>, <<"bottom", "-z">>>>

\* axis.replace('-', '')
cleanAxis(axis) ==
    CASE axis = "-x" -> "x"
      [] axis = "-y" -> "y"
      [] axis = "-z" -> "z"
      [] OTHER -> axis

\* corner: DEFAULT_SIDES and SIDE_TO_BOUND
DEFAULT_SIDES == [x |-> "left", y |-> "front", z |-> "bottom"]
SIDE_TO_BOUND ==
    [left |-> 0, right |-> 1, front |-> 2, back |-> 3, bottom |-> 4, top |-> 5]

\* corner: the loop over Object.entries(SIDE_TO_AXIS), from entry i on
RECURSIVE setSides(_, _, _)
setSides(sides, where, i) ==
    IF i > Len(SIDE_TO_AXIS) THEN sides
    ELSE LET side == SIDE_TO_AXIS[i][1]
             axis == SIDE_TO_AXIS[i][2]
         IN  IF includes(where, SideChars[side])
             THEN setSides([sides EXCEPT ![cleanAxis(axis)] = side], where, i + 1)
             ELSE setSides(sides, where, i + 1)

\* a plausible slip in corner: the where string is not lower-cased
corner_caseSensitive(this, where) ==
    IF isPoint(this) THEN center(this)
    ELSE LET sides == setSides(DEFAULT_SIDES, where, 1)
         IN  IF is2D(this)
             THEN <<this.bounds[SIDE_TO_BOUND[sides.x] + 1],
                    this.bounds[SIDE_TO_BOUND[sides.y] + 1], 0>>
             ELSE <<this.bounds[SIDE_TO_BOUND[sides.x] + 1],
                    this.bounds[SIDE_TO_BOUND[sides.y] + 1],
                    this.bounds[SIDE_TO_BOUND[sides.z] + 1]>>

\* corner(where): Point
corner(this, where) ==
    IF isPoint(this) THEN center(this)
    ELSE LET sides == setSides(DEFAULT_SIDES, toLowerCase(where), 1)
         IN  IF is2D(this)
             THEN <<this.bounds[SIDE_TO_BOUND[sides.x] + 1],
                    this.bounds[SIDE_TO_BOUND[sides.y] + 1], 0>>
             ELSE <<this.bounds[SIDE_TO_BOUND[sides.x] + 1],
                    this.bounds[SIDE_TO_BOUND[sides.y] + 1],
                    this.bounds[SIDE_TO_BOUND[sides.z] + 1]>>

----------------------------------------------------------------------------
(* Inputs of corner() *)

Sides == {"left", "right", "front", "back", "top", "bottom"}
AxisOfSide ==
    [left |-> "x", right |-> "x", front |-> "y", back |-> "y",
     top |-> "z", bottom |-> "z"]

\* the keyword lists that name at most one side per axis, in every order
SideLists ==
    {l \in UNION {[1..n -> Sides] : n \in 0..3} :
        \A i, j \in DOMAIN l : i # j => AxisOfSide[l[i]] # AxisOfSide[l[j]]}

\* how a keyword is written: left, LEFT or Left
Styles == {"lower", "upper", "title"}

UpperOf ==
    [l |-> "L", e |-> "E", f |-> "F", t |-> "T", r |-> "R", i |-> "I",
     g |-> "G", h |-> "H", o |-> "O", n |-> "N", b |-> "B", a |-> "A",
     c |-> "C", k |-> "K", p |-> "P", m |-> "M"]

Written(side, style) ==
    LET w == SideChars[side]
    IN  [i \in 1..Len(w) |->
            IF style = "upper" \/ (style = "title" /\ i = 1)
            THEN UpperOf[w[i]] ELSE w[i]]

\* the where string that writes the keywords of l one after the other
RECURSIVE WhereString(_, _)
WhereString(l, style) ==
    IF l = <<>> THEN <<>>
    ELSE Written(Head(l), style) \o WhereString(Tail(l), style)

----------------------------------------------------------------------------
(* class ShapeCollection (src/unnamed/part_000).                           *)
(*                                                                         *)
(* What a caller can hand to a collection is a record tagged by kind:      *)
(*   [kind |-> "null"]                        null                         *)
(*   [kind |-> "coords", at |-> p]            a coordinate array [x, y, z] *)
(*   [kind |-> "shape", id, hash, type,       a Shape object: id is the    *)
(*    empty, lo, hi, cut]                     object's identity, hash its  *)
(*                                            _hashcode(), empty its       *)
(*                                            isEmpty(), lo and hi the     *)
(*                                            corners of its extent, cut   *)
(*                                            the identities of the Shapes *)
(*                                            subtracted from it           *)
(*   [kind |-> "collection", shapes |-> s]    another ShapeCollection      *)
(*   [kind |-> "array", items |-> s]          an Array of such values      *)
(*   [kind |-> "unknown"]                     anything else                *)
(* A ShapeCollection instance is the record of its fields shapes and       *)
(* _groups and of the properties the program sets on it: keys is the       *)
(* function from the numeric property names (0, 1, ...) present on the     *)
(* instance to their values, groupKeys the function from the group-name    *)
(* properties to the shapes of the collections they hold.                  *)

\* a new Shape object gets the least identity that is not in ids
FreshId(ids) ==
    CHOOSE n \in 1..(Cardinality(ids) + 1) :
        n \notin ids /\ \A k \in 1..(n - 1) : k \in ids

\* the identities of the Shapes of a sequence
IdsOf(shapes) == {shapes[i].id : i \in DOMAIN shapes}

\* the identities of the Shapes of a sequence and of the Edges that its
\* Wires give back through edges()
ObjectIdsOf(shapes) ==
    IdsOf(shapes)
    \cup UNION {IF "edges" \in DOMAIN shapes[i] THEN IdsOf(shapes[i].edges)
                ELSE {} : i \in DOMAIN shapes}

\* the identities of the objects a collection refers to: its Shapes and the
\* Edges its Wires hold
IdsIn(this) ==
    ObjectIdsOf(this.shapes)
    \cup UNION {ObjectIdsOf(this._groups[g]) : g \in DOMAIN this._groups}
    \cup UNION {ObjectIdsOf(<<this.keys[i]>>) : i \in DOMAIN this.keys}

\* new Vertex(p), the object getting identity id
NewVertex(p, id) ==
    [kind |-> "shape", id |-> id, hash |-> id, type |-> "Vertex",
     empty |-> FALSE, lo |-> p, hi |-> p, cut |-> {}, tf |-> {}]

\* isPointLike(o): a coordinate array or a Vertex
isPointLike(o) ==
    o.kind = "coords" \/ (o.kind = "shape" /\ o.type = "Vertex")

\* isAnyShapeCollection(o)
isAnyShapeCollection(o) == o.kind = "collection"

\* isAnyShape(o)
isAnyShape(o) == o.kind = "shape"

\* isPointLikeSequence(o): an Array of point-likes
isPointLikeSequence(o) ==
    o.kind = "array" /\ \A i \in DOMAIN o.items : isPointLike(o.items[i])

\* flattenEntitiesToArray(entities): the elements of nested Arrays in one
\* linear list, in order; a coordinate array is one element
RECURSIVE flattenEntitiesToArray(_)
flattenEntitiesToArray(entities) ==
    IF entities = <<>> THEN <<>>
    ELSE LET es == Head(entities)
         IN  (IF es.kind = "array" THEN flattenEntitiesToArray(es.items)
              ELSE <<es>>) \o flattenEntitiesToArray(Tail(entities))

\* the fields of a new instance
NewCollection ==
    [shapes |-> <<>>, _groups |-> <<>>, keys |-> <<>>, groupKeys |-> <<>>]

\* the Shape objects that exist before the program starts; the callers
\* hold them and hand them to the collection
V1 == [kind |-> "shape", id |-> 1, hash |-> 1, type |-> "Vertex",
       empty |-> FALSE, lo |-> <<4, 6, 8>>, hi |-> <<4, 6, 8>>,
       cut |-> {}, tf |-> {}]
V2 == [kind |-> "shape", id |-> 2, hash |-> 2, type |-> "Vertex",
       empty |-> FALSE, lo |-> <<4, 6, 8>>, hi |-> <<4, 6, 8>>,
       cut |-> {}, tf |-> {}]
E1 == [kind |-> "shape", id |-> 3, hash |-> 3, type |-> "Edge",
       empty |-> FALSE, lo |-> <<4, 6, 8>>, hi |-> <<12, 6, 8>>,
       cut |-> {}, tf |-> {}]
S1 == [kind |-> "shape", id |-> 4, hash |-> -4, type |-> "Solid",
       empty |-> FALSE, lo |-> <<4, 6, 8>>, hi |-> <<12, 14, 16>>,
       cut |-> {}, tf |-> {}]
Z1 == [kind |-> "shape", id |-> 5, hash |-> 5, type |-> "Edge",
       empty |-> TRUE, lo |-> NULL, hi |-> NULL,
       cut |-> {}, tf |-> {}]
\* an Edge that starts where E1 ends
E2 == [kind |-> "shape", id |-> 9, hash |-> 9, type |-> "Edge",
       empty |-> FALSE, lo |-> <<12, 6, 8>>, hi |-> <<12, 14, 8>>,
       cut |-> {}, tf |-> {}]
ShapeObjects == {V1, V2, E1, S1, Z1, E2}

\* the identities new objects must differ from: those of the caller's
\* Shapes and those the collection refers to
UsedIds(this) == IdsIn(this) \cup {o.id : o \in ShapeObjects}

\* the body of allEntities.forEach, keeping an empty Shape
addEntity_emptyKept(acc, es, used) ==
    IF es.kind = "null" THEN acc
    ELSE IF es.kind = "coords"
    THEN LET vertex == NewVertex(es.at, FreshId(used \cup ObjectIdsOf(acc.shapes)))
         IN  [shapes |-> Append(acc.shapes, vertex),
              addedShapes |-> Append(acc.addedShapes, vertex)]
    ELSE IF es.kind = "collection"
    THEN [shapes |-> acc.shapes \o es.shapes,
          addedShapes |-> acc.addedShapes \o es.shapes]
    ELSE IF es.kind = "shape"
    THEN [shapes |-> Append(acc.shapes, es),
          addedShapes |-> Append(acc.addedShapes, es)]
    ELSE acc

\* the body of allEntities.forEach, pushing a collection as it is
addEntity_nested(acc, es, used) ==
    IF es.kind = "null" THEN acc
    ELSE IF es.kind = "coords"
    THEN LET vertex == NewVertex(es.at, FreshId(used \cup ObjectIdsOf(acc.shapes)))
         IN  [shapes |-> Append(acc.shapes, vertex),
              addedShapes |-> Append(acc.addedShapes, vertex)]
    ELSE IF es.kind = "collection"
    THEN LET member == [kind |-> "collection", id |-> 0, hash |-> 0,
                        type |-> "ShapeCollection", empty |-> FALSE,
                        lo |-> NULL, hi |-> NULL, cut |-> {}, tf |-> {},
                        shapes |-> es.shapes]
         IN  [shapes |-> Append(acc.shapes, member),
              addedShapes |-> Append(acc.addedShapes, member)]
    ELSE IF es.kind = "shape"
    THEN IF es.type = "Vertex" \/ ~es.empty
         THEN [shapes |-> Append(acc.shapes, es),
               addedShapes |-> Append(acc.addedShapes, es)]
         ELSE acc
    ELSE acc

\* _addEntities: the body of allEntities.forEach for one element es;
\* acc holds this.shapes and addedShapes, used the identities in use
RECURSIVE addEntity(_, _, _)
RECURSIVE addEntitiesFrom(_, _, _, _)
addEntity(acc, es, used) ==
    IF es.kind = "null" THEN acc
    ELSE IF isPointLike(es)
    THEN LET vertex == IF es.kind # "shape"
                       THEN NewVertex(es.at,
                                FreshId(used \cup ObjectIdsOf(acc.shapes)))
                       ELSE es
         IN  [shapes |-> Append(acc.shapes, vertex),
              addedShapes |-> Append(acc.addedShapes, vertex)]
    ELSE IF isAnyShapeCollection(es)
    THEN [shapes |-> acc.shapes \o es.shapes,
          addedShapes |-> acc.addedShapes \o es.shapes]
    ELSE IF isPointLikeSequence(es)
    THEN \* points = new ShapeCollection(es) holds Vertices only, and a
         \* Vertex is point-like: points.forEach pushes each of them
         LET points == addEntitiesFrom([shapes |-> <<>>, addedShapes |-> <<>>],
                                       es.items, 1,
                                       used \cup ObjectIdsOf(acc.shapes))
         IN  [shapes |-> acc.shapes \o points.shapes,
              addedShapes |-> acc.addedShapes \o points.shapes]
    ELSE IF isAnyShape(es)
    THEN IF ~es.empty
         THEN [shapes |-> Append(acc.shapes, es),
               addedShapes |-> Append(acc.addedShapes, es)]
         ELSE acc
    ELSE acc

\* _addEntities: allEntities.forEach from element i on
addEntitiesFrom(acc, allEntities, i, used) ==
    IF i > Len(allEntities) THEN acc
    ELSE addEntitiesFrom(addEntity(acc, allEntities[i], used),
                         allEntities, i + 1, used)

\* the shapes of new ShapeCollection(entities), entities an Array of Shapes
shapesOfNew(entities) ==
    addEntitiesFrom([shapes |-> <<>>, addedShapes |-> <<>>],
                    flattenEntitiesToArray(entities), 1,
                    {o.id : o \in ShapeObjects} \cup ObjectIdsOf(entities)).shapes

\* _setFakeArrayKeys()
_setFakeArrayKeys(this) ==
    LET present == DOMAIN this.keys
        \* the loop deletes this[0], this[1], ... up to the first one missing
        stop == CHOOSE i \in 0..Cardinality(present) :
                    /\ i \notin present
                    /\ \A j \in 0..(i - 1) : j \in present
        kept == present \ (0..(stop - 1))
        n == Len(this.shapes)
    IN  [this EXCEPT !.keys =
            [i \in kept \cup (0..(n - 1)) |->
                IF i < n THEN this.shapes[i + 1] ELSE this.keys[i]]]

\* _setFakeGroupKeys()
_setFakeGroupKeys(this) ==
    [this EXCEPT !.groupKeys =
        [k \in DOMAIN this._groups \ {"shapes"} |->
            shapesOfNew(this._groups[k])]]

\* _addEntities(entities, group); group is "" when none is given
_addEntities(this, entities, group) ==
    LET allEntities == flattenEntitiesToArray(entities)
        done == addEntitiesFrom([shapes |-> this.shapes, addedShapes |-> <<>>],
                                allEntities, 1, UsedIds(this))
        grouped == IF group # ""
                   THEN IF group \in DOMAIN this._groups
                        \* the Array that concat returns is dropped
                        THEN this._groups
                        ELSE (group :> done.addedShapes) @@ this._groups
                   ELSE this._groups
    IN  _setFakeGroupKeys([this EXCEPT !.shapes = done.shapes,
                                       !._groups = grouped])

\* fromAll(entities)
fromAll(this, entities) == _setFakeArrayKeys(_addEntities(this, entities, ""))

\* new ShapeCollection(entities): the constructor followed by fromAll
newShapeCollection(entities) == fromAll(NewCollection, entities)

\* add(shapes, ...args)
add(this, entities) == _setFakeArrayKeys(_addEntities(this, entities, ""))

\* addGroup(group, entities)
addGroup(this, group, entities) ==
    _setFakeGroupKeys(_addEntities(this, entities, group))

\* concat(other), other a ShapeCollection
concat(this, other) ==
    _setFakeArrayKeys([this EXCEPT !.shapes = this.shapes \o other.shapes])

\* prepend(shape)
prepend(this, shape) == [this EXCEPT !.shapes = <<shape>> \o this.shapes]

\* push(shape)
push(this, shape) == [this EXCEPT !.shapes = Append(this.shapes, shape)]

\* pop()
pop(this) ==
    IF this.shapes = <<>> THEN this
    ELSE [this EXCEPT !.shapes = SubSeq(this.shapes, 1, Len(this.shapes) - 1)]

\* reverse()
reverse(this) ==
    [this EXCEPT !.shapes =
        [i \in 1..Len(this.shapes) |-> this.shapes[Len(this.shapes) + 1 - i]]]

\* Array.sort(func) for func = (a, b) => a._hashcode() - b._hashcode(): the
\* sort is stable
RECURSIVE sortedByHash(_)
sortedByHash(shapes) ==
    IF shapes = <<>> THEN <<>>
    ELSE LET n == Len(shapes)
             front == sortedByHash(SubSeq(shapes, 1, n - 1))
             x == shapes[n]
             \* x goes behind every element that is not greater
             k == Cardinality({i \in DOMAIN front : front[i].hash <= x.hash})
         IN  SubSeq(front, 1, k) \o <<x>> \o SubSeq(front, k + 1, n - 1)

\* sort(func)
sort(this) == _setFakeArrayKeys([this EXCEPT !.shapes = sortedByHash(this.shapes)])

\* Shape.same(other): the same kernel shape
same(shape, other) == other.kind = "shape" /\ shape.id = other.id

\* has(s)
has(this, s) ==
    IF s.kind = "shape"
    THEN \E i \in DOMAIN this.shapes : same(this.shapes[i], s)
    ELSE \E c \in DOMAIN s.shapes :
             \E i \in DOMAIN this.shapes : same(this.shapes[i], s)

\* remove(shapes), shapes made a ShapeCollection by the input check
remove(this, removeShapes) ==
    [this EXCEPT !.shapes =
        SelectSeq(this.shapes, LAMBDA shape : ~has(removeShapes, shape))]

\* isEmpty()
isEmpty(this) == [this EXCEPT !.shapes = <<>>]

\* replace(shapes, newShapes)
replace(this, shapes, newShapes) == add(remove(this, shapes), <<newShapes>>)

\* Shape.checkDowngrade(): the Shapes of the model have nothing to
\* downgrade to
shapeCheckDowngrade(shape) == shape

\* checkDowngrade()
checkDowngrade(this) ==
    [this EXCEPT !.shapes =
        shapesOfNew([i \in DOMAIN this.shapes |->
                        shapeCheckDowngrade(this.shapes[i])])]

\* distinct(): distinctShapesByHash gets each hash's first Shape;
\* Object.values lists the values of the integer keys (hashes from 0 up)
\* in ascending order of the key, then those of the other keys in the
\* order they were set
distinct(this) ==
    LET firsts == SelectSeq([i \in DOMAIN this.shapes |-> i],
                            LAMBDA i : \A j \in 1..(i - 1) :
                                this.shapes[j].hash # this.shapes[i].hash)
        byKey == [i \in DOMAIN firsts |-> this.shapes[firsts[i]]]
        indexKeys == sortedByHash(SelectSeq(byKey, LAMBDA shape : shape.hash >= 0))
        otherKeys == SelectSeq(byKey, LAMBDA shape : shape.hash < 0)
    IN  _setFakeArrayKeys([this EXCEPT !.shapes = indexKeys \o otherKeys])

\* Shape._subtracted(other): a new Shape, what is left of shape
shapeSubtracted(shape, other, id) ==
    [shape EXCEPT !.id = id, !.hash = id, !.cut = shape.cut \cup {other.id}]

\* _subtracted(other): newShapes.add(...) for the Shapes from i on and, for
\* other a collection, its Shapes from j on
RECURSIVE subtractedFrom(_, _, _, _, _, _)
subtractedFrom(newShapes, shapes, i, others, j, used) ==
    IF i > Len(shapes) THEN newShapes
    ELSE IF j > Len(others)
    THEN subtractedFrom(newShapes, shapes, i + 1, others, 1, used)
    ELSE LET made == shapeSubtracted(shapes[i], others[j],
                                     FreshId(used \cup ObjectIdsOf(newShapes)))
         IN  subtractedFrom(
                 addEntity([shapes |-> newShapes, addedShapes |-> <<>>],
                           made, used).shapes,
                 shapes, i, others, j + 1, used)

\* _subtracted(other).toArray(); used are the identities in use
_subtracted(this, other, used) ==
    subtractedFrom(<<>>, this.shapes, 1,
                   IF isAnyShape(other) THEN <<other>> ELSE other.shapes,
                   1, used)

\* subtract(other)
subtract(this, other) ==
    [this EXCEPT !.shapes =
        _subtracted(this, other, UsedIds(this) \cup
            (IF isAnyShape(other) THEN ObjectIdsOf(<<other>>)
             ELSE ObjectIdsOf(other.shapes)))]

\* Shape.contains(other): the extent of other lies within that of shape
shapeContains(shape, other) ==
    /\ ~shape.empty /\ ~other.empty
    /\ \A a \in 1..3 : shape.lo[a] <= other.lo[a] /\ other.hi[a] <= shape.hi[a]

\* _removeContained()
_removeContained(this) ==
    LET isContained(p) ==
            \E q \in DOMAIN this.shapes :
                /\ this.shapes[p].id # this.shapes[q].id
                /\ shapeContains(this.shapes[q], this.shapes[p])
        notContained == SelectSeq([p \in DOMAIN this.shapes |-> p],
                                  LAMBDA p : ~isContained(p))
    IN  _setFakeArrayKeys(
            [this EXCEPT !.shapes =
                [k \in DOMAIN notContained |-> this.shapes[notContained[k]]]])

\* Shape.bbox(): no Bbox (the empty tuple) for a Shape without extent, else
\* the one Bbox made from the kernel's box around the Shape
shapeBbox(shape) ==
    IF shape.empty THEN <<>>
    ELSE <<updateFromOcBbox(
             [NewInstance EXCEPT !.ocBbox = Bnd_Box_2(shape.lo, shape.hi)])>>

\* bbox(): this.shapes.forEach from the Shape at index i on; combinedBbox
\* is no Bbox (the empty tuple) or one
RECURSIVE combineFrom(_, _, _)
combineFrom(combinedBbox, shapes, i) ==
    IF i > Len(shapes) THEN [threw |-> FALSE, ret |-> combinedBbox]
    ELSE LET bbox == shapeBbox(shapes[i])
         IN  IF bbox = <<>> THEN combineFrom(combinedBbox, shapes, i + 1)
             \* null.added(bbox), and added() reading undefined bounds
             ELSE IF combinedBbox = <<>> \/ Throws(combinedBbox[1])
             THEN [threw |-> TRUE, ret |-> <<>>]
             ELSE combineFrom(<<added(combinedBbox[1], bbox[1])>>, shapes, i + 1)

\* first()
first(this) == IF this.shapes = <<>> THEN <<>> ELSE <<this.shapes[1]>>

\* count()
count(this) == Len(this.shapes)

\* ShapeCollection.bbox(): whether it threw, and the Bbox returned if any
ShapeCollection_bbox(this) ==
    \* this.first() is undefined in an empty collection
    IF first(this) = <<>> THEN [threw |-> TRUE, ret |-> <<>>]
    ELSE combineFrom(shapeBbox(first(this)[1]), this.shapes, 2)

\* ShapeCollection.center(): whether it threw, and the Point returned if any
ShapeCollection_center(this) ==
    IF count(this) = 0 THEN [threw |-> FALSE, ret |-> <<>>]
    ELSE IF count(this) = 1
    THEN LET bbox == shapeBbox(first(this)[1])
         IN  IF bbox # <<>>
             THEN [threw |-> FALSE, ret |-> <<center(bbox[1])>>]
             ELSE [threw |-> FALSE, ret |-> <<>>]
    ELSE LET all == ShapeCollection_bbox(this)
         IN  IF all.threw \/ all.ret = <<>> \/ Throws(all.ret[1])
             THEN [threw |-> TRUE, ret |-> <<>>]
             ELSE [threw |-> FALSE, ret |-> <<center(all.ret[1])>>]

\* The transforming methods of Shape.  A transform is the record t of the
\* method's name op, its number n (a factor, an angle in degrees, an
\* amount) and its point p: the vector of move, the pivot of rotateEuler
\* and scale, the one offset of mirrorX, mirrorY and mirrorZ, or the empty
\* tuple where the caller passes none and the Shape takes its own center.
\* The Shape keeps the names of the transforms it underwent in tf.  move,
\* the mirrors, scale and half a turn about an axis (rotateEuler about z,
\* rotateX, rotateY, rotateZ, rotateAround about its default axis z) also
\* change its extent; what offset, extrude, thicken and replaceShape make
\* of the extent is left to the kernel.
shapeTransform(shape, t) ==
    LET own == [a \in 1..3 |->
                   shape.lo[a] + ((shape.hi[a] - shape.lo[a]) \div 2)]
        about == IF t.p = <<>> THEN own
                 ELSE IF Len(t.p) = 1 THEN <<t.p[1], t.p[1], t.p[1]>>
                 ELSE t.p
        flipped == CASE t.op = "mirrorX" -> {2}
                     [] t.op = "mirrorY" -> {1}
                     [] t.op = "mirrorZ" -> {3}
                     [] t.op = "rotateEuler" /\ t.n = 180 -> {1, 2}
                     [] t.op = "rotateX" /\ t.n = 180 -> {2, 3}
                     [] t.op = "rotateY" /\ t.n = 180 -> {1, 3}
                     [] t.op = "rotateZ" /\ t.n = 180 -> {1, 2}
                     [] t.op = "rotateAround" /\ t.n = 180 -> {1, 2}
                     [] OTHER -> {}
        lo == [a \in 1..3 |->
                  IF t.op = "move" THEN shape.lo[a] + t.p[a]
                  ELSE IF t.op = "scale"
                  THEN about[a] + t.n * (shape.lo[a] - about[a])
                  ELSE IF a \in flipped THEN 2 * about[a] - shape.hi[a]
                  ELSE shape.lo[a]]
        hi == [a \in 1..3 |->
                  IF t.op = "move" THEN shape.hi[a] + t.p[a]
                  ELSE IF t.op = "scale"
                  THEN about[a] + t.n * (shape.hi[a] - about[a])
                  ELSE IF a \in flipped THEN 2 * about[a] - shape.lo[a]
                  ELSE shape.hi[a]]
    IN  IF shape.empty THEN [shape EXCEPT !.tf = @ \cup {t.op}]
        ELSE [shape EXCEPT !.tf = @ \cup {t.op}, !.lo = lo, !.hi = hi]

\* Shape._copy(): a new Shape, equal to shape in everything else
shapeCopy(shape, id) == [shape EXCEPT !.id = id, !.hash = id]

\* Shape.offsetted, extruded, thickened: a new Shape, shape transformed
shapeTransformed(shape, t, id) == shapeTransform(shapeCopy(shape, id), t)

\* the method called k times on the same Shape
RECURSIVE shapeTransformTimes(_, _, _)
shapeTransformTimes(shape, t, k) ==
    IF k = 0 THEN shape
    ELSE shapeTransformTimes(shapeTransform(shape, t), t, k - 1)

\* this.shapes.forEach(shape => shape.<t.op>(...)): the method is called on
\* a Shape once for every place it has in shapes, and the Shape is the same
\* object wherever the collection refers to it
forEachShape(this, t) ==
    LET done(s) ==
            shapeTransformTimes(s, t,
                Cardinality({i \in DOMAIN this.shapes :
                                this.shapes[i].id = s.id}))
        each(shapes) == [i \in DOMAIN shapes |-> done(shapes[i])]
    IN  [shapes |-> each(this.shapes),
         _groups |-> [g \in DOMAIN this._groups |-> each(this._groups[g])],
         keys |-> [i \in DOMAIN this.keys |-> done(this.keys[i])],
         groupKeys |-> [g \in DOMAIN this.groupKeys |->
                           each(this.groupKeys[g])]]

\* What a bulk operation does: threw tells whether it threw, this is the
\* receiver afterwards, ret the collection it returned and self whether
\* that is the receiver itself.
Thrown(this) == [threw |-> TRUE, this |-> this, ret |-> this, self |-> TRUE]
ReturnsThis(this) ==
    [threw |-> FALSE, this |-> this, ret |-> this, self |-> TRUE]
ReturnsNew(this, newCollection) ==
    [threw |-> FALSE, this |-> this, ret |-> newCollection, self |-> FALSE]

\* this.shapes.map(s => s._copy()), from the Shape at index i on
RECURSIVE copiedFrom(_, _, _, _)
copiedFrom(copiedShapes, shapes, i, used) ==
    IF i > Len(shapes) THEN copiedShapes
    ELSE copiedFrom(
             Append(copiedShapes,
                    shapeCopy(shapes[i],
                              FreshId(used \cup ObjectIdsOf(copiedShapes)))),
             shapes, i + 1, used)

\* _copy(): every copy is a new object, used the identities of the objects
\* that exist when the call is made
_copy(this, used) ==
    newShapeCollection(
        <<[kind |-> "array",
           items |-> copiedFrom(<<>>, this.shapes, 1, used)]>>)

\* copy(), called on a receiver that no call in progress has changed
ShapeCollection_copy(this) == _copy(this, UsedIds(this))

\* new ShapeCollection(), then this.shapes.forEach(shape =>
\* newCollection.add(shape.<t.op>ed(...))), from the Shape at index i on
RECURSIVE addTransformedFrom(_, _, _, _, _)
addTransformedFrom(newCollection, shapes, i, t, used) ==
    IF i > Len(shapes) THEN newCollection
    ELSE addTransformedFrom(
             add(newCollection,
                 <<shapeTransformed(shapes[i], t,
                       FreshId(used \cup ObjectIdsOf(newCollection.shapes)))>>),
             shapes, i + 1, t, used)

\* move(vector)
move(this, vector) ==
    ReturnsThis(forEachShape(this, [op |-> "move", n |-> 0, p |-> vector]))

\* moved(vector)
moved(this, vector) ==
    LET newCollection == ShapeCollection_copy(this)
    IN  ReturnsNew(this, forEachShape(newCollection,
                             [op |-> "move", n |-> 0, p |-> vector]))

\* rotateEuler(0, 0, degZ) with the pivot 'center'
rotateEuler(this, degZ) ==
    LET pivot == ShapeCollection_center(this)
    IN  IF pivot.threw THEN Thrown(this)
        ELSE ReturnsThis(forEachShape(this,
                 [op |-> "rotateEuler", n |-> degZ,
                  p |-> IF pivot.ret = <<>> THEN <<>> ELSE pivot.ret[1]]))

\* rotatedEuler(0, 0, degZ) with the pivot 'center'
rotatedEuler(this, degZ) ==
    LET newCollection == ShapeCollection_copy(this)
        pivot == ShapeCollection_center(this)
    IN  IF pivot.threw THEN Thrown(this)
        \* the Shapes of newCollection are rotated
        ELSE ReturnsThis(this)

\* scale(factor)
scale(this, factor) ==
    LET pivot == ShapeCollection_center(this)
    IN  IF pivot.threw THEN Thrown(this)
        ELSE ReturnsThis(forEachShape(this,
                 [op |-> "scale", n |-> factor,
                  p |-> IF pivot.ret = <<>> THEN <<>> ELSE pivot.ret[1]]))

\* scaled(factor)
scaled(this, factor) ==
    LET newCollection == scale(ShapeCollection_copy(this), factor)
    IN  IF newCollection.threw THEN Thrown(this)
        ELSE ReturnsNew(this, newCollection.this)

\* offset || this.center()[axis]: the offset given (the empty tuple for
\* none) unless it is none or 0, else that coordinate of the center
offsetOrCenter(this, offset, axis) ==
    IF offset # <<>> /\ offset # <<0>> THEN [threw |-> FALSE, ret |-> offset]
    ELSE LET c == ShapeCollection_center(this)
         \* center() throws, or is null and reading its coordinate throws
         IN  IF c.threw \/ c.ret = <<>> THEN [threw |-> TRUE, ret |-> <<>>]
             ELSE [threw |-> FALSE, ret |-> <<c.ret[1][axis]>>]

\* mirrorX(offset)
mirrorX(this, offset) ==
    LET o == offsetOrCenter(this, offset, 2)
    IN  IF o.threw THEN Thrown(this)
        ELSE ReturnsThis(forEachShape(this,
                 [op |-> "mirrorX", n |-> 0, p |-> o.ret]))

\* mirroredX(offset)
mirroredX(this, offset) ==
    LET newCollection == mirrorX(ShapeCollection_copy(this), offset)
    IN  IF newCollection.threw THEN Thrown(this)
        ELSE ReturnsNew(this, newCollection.this)

\* mirrorY(offset)
mirrorY(this, offset) ==
    LET o == offsetOrCenter(this, offset, 1)
    IN  IF o.threw THEN Thrown(this)
        ELSE ReturnsThis(forEachShape(this,
                 [op |-> "mirrorY", n |-> 0, p |-> o.ret]))

\* mirroredY(offset)
mirroredY(this, offset) ==
    LET newCollection == mirrorY(ShapeCollection_copy(this), offset)
    IN  IF newCollection.threw THEN Thrown(this)
        ELSE ReturnsNew(this, newCollection.this)

\* mirrorZ(offset): the offset goes to the Shapes as it is given
mirrorZ(this, offset) ==
    ReturnsThis(forEachShape(this, [op |-> "mirrorZ", n |-> 0, p |-> offset]))

\* mirroredZ(offset)
mirroredZ(this, offset) ==
    LET newCollection == ShapeCollection_copy(this)
        o == offsetOrCenter(this, offset, 3)
    IN  IF o.threw THEN Thrown(this)
        ELSE ReturnsNew(this, mirrorZ(newCollection, o.ret).this)

\* offset(amount)
offset(this, amount) ==
    ReturnsThis(forEachShape(this, [op |-> "offset", n |-> amount, p |-> <<>>]))

\* offsetted(amount)
offsetted(this, amount) ==
    ReturnsNew(this, addTransformedFrom(NewCollection, this.shapes, 1,
                         [op |-> "offset", n |-> amount, p |-> <<>>],
                         UsedIds(this)))

\* extrude(amount)
extrude(this, amount) ==
    ReturnsThis(forEachShape(this, [op |-> "extrude", n |-> amount, p |-> <<>>]))

\* extruded(amount)
extruded(this, amount) ==
    ReturnsNew(this, addTransformedFrom(NewCollection, this.shapes, 1,
                         [op |-> "extrude", n |-> amount, p |-> <<>>],
                         UsedIds(this)))

\* thicken(amount)
thicken(this, amount) ==
    ReturnsThis(forEachShape(this, [op |-> "thicken", n |-> amount, p |-> <<>>]))

\* thickened(amount)
thickened(this, amount) ==
    ReturnsNew(this, addTransformedFrom(NewCollection, this.shapes, 1,
                         [op |-> "thicken", n |-> amount, p |-> <<>>],
                         UsedIds(this)))

\* Shape.equals(other): the same geometry, whichever objects the two are
shapeEquals(shape, other) ==
    /\ shape.type = other.type /\ shape.empty = other.empty
    /\ shape.lo = other.lo /\ shape.hi = other.hi /\ shape.cut = other.cut

\* unique(): shapes.forEach from the Shape at index i on.  usedShapes is
\* the same at every step: the Array that usedShapes.concat returns is
\* dropped
RECURSIVE uniqueFrom(_, _, _, _)
uniqueFrom(uniqueShapes, usedShapes, shapes, i) ==
    IF i > Len(shapes) THEN uniqueShapes
    ELSE LET curShape == shapes[i]
         IN  IF \A u \in DOMAIN usedShapes : usedShapes[u].id # curShape.id
             THEN uniqueFrom(Append(uniqueShapes, curShape), usedShapes,
                             shapes, i + 1)
             ELSE uniqueFrom(uniqueShapes, usedShapes, shapes, i + 1)

\* unique(): this.distinct() works on the receiver
unique(this) ==
    LET distincted == distinct(this)
        uniqueShapes == uniqueFrom(<<>>, <<>>, distincted.shapes, 1)
    IN  ReturnsNew(distincted,
                   newShapeCollection(
                       <<[kind |-> "array", items |-> uniqueShapes]>>))

\* lowestType(): the ranking of the Shape types
TYPES_ORDERED == <<"Solid", "Shell", "Face", "Wire", "Edge", "Vertex">>

\* lowestType() naming the type of the highest rank among the Shapes
lowestType_highest(this) ==
    IF this.shapes = <<>> THEN <<>>
    ELSE LET present == {i \in DOMAIN TYPES_ORDERED :
                            \E k \in DOMAIN this.shapes :
                                this.shapes[k].type = TYPES_ORDERED[i]}
         IN  IF present = {} THEN <<>>
             ELSE <<TYPES_ORDERED[CHOOSE i \in present :
                                      \A j \in present : i <= j]>>

\* lowestType(): this.shapes.forEach from the Shape at index k on;
\* lowestType is the empty tuple for null or the tuple of one type
RECURSIVE lowestTypeFrom(_, _, _, _)
lowestTypeFrom(lowestType, lowestTypeIndex, shapes, k) ==
    IF k > Len(shapes) THEN lowestType
    ELSE LET type == shapes[k].type
             \* TYPES_ORDERED.indexOf(s.type()), counting from 0
             i == IF \E n \in DOMAIN TYPES_ORDERED : TYPES_ORDERED[n] = type
                  THEN (CHOOSE n \in DOMAIN TYPES_ORDERED :
                            TYPES_ORDERED[n] = type) - 1
                  ELSE -1
         IN  IF i > lowestTypeIndex
             THEN lowestTypeFrom(<<type>>, i, shapes, k + 1)
             ELSE lowestTypeFrom(lowestType, lowestTypeIndex, shapes, k + 1)

\* lowestType()
lowestType(this) == lowestTypeFrom(<<>>, -1, this.shapes, 1)

\* rotate(r), r the angles about the x, y and z axis: the Shapes of a new,
\* empty collection are rotated, those of the receiver are not
rotate(this, r) ==
    LET newCollection ==
            forEachShape(
                forEachShape(
                    forEachShape(NewCollection,
                                 [op |-> "rotateX", n |-> r[1], p |-> <<>>]),
                    [op |-> "rotateY", n |-> r[2], p |-> <<>>]),
                [op |-> "rotateZ", n |-> r[3], p |-> <<>>])
    IN  ReturnsThis(this)

\* _mirroredX(offset): (offset !== null) ? offset : this.center().y; o is the offset
_mirroredX(this, o) ==
    LET c == ShapeCollection_center(this)
    IN  IF o = <<>> /\ (c.threw \/ c.ret = <<>>) THEN Thrown(this)
        ELSE ReturnsNew(this, addTransformedFrom(NewCollection, this.shapes, 1,
                 [op |-> "mirrorX", n |-> 0,
                  p |-> IF o # <<>> THEN o ELSE <<c.ret[1][2]>>],
                 UsedIds(this)))

\* _mirroredY(offset): (offset !== null) ? offset : this.center().x; o is the offset
_mirroredY(this, o) ==
    LET c == ShapeCollection_center(this)
    IN  IF o = <<>> /\ (c.threw \/ c.ret = <<>>) THEN Thrown(this)
        ELSE ReturnsNew(this, addTransformedFrom(NewCollection, this.shapes, 1,
                 [op |-> "mirrorY", n |-> 0,
                  p |-> IF o # <<>> THEN o ELSE <<c.ret[1][1]>>],
                 UsedIds(this)))

\* _mirroredZ(offset): (offset !== null) ? offset : this.center().z; o is the offset
_mirroredZ(this, o) ==
    LET c == ShapeCollection_center(this)
    IN  IF o = <<>> /\ (c.threw \/ c.ret = <<>>) THEN Thrown(this)
        ELSE ReturnsNew(this, addTransformedFrom(NewCollection, this.shapes, 1,
                 [op |-> "mirrorZ", n |-> 0,
                  p |-> IF o # <<>> THEN o ELSE <<c.ret[1][3]>>],
                 UsedIds(this)))

\* equals(other), other a ShapeCollection
equals(this, other) ==
    IF count(this) # count(other) THEN FALSE
    ELSE \A s \in DOMAIN this.shapes :
             \* other.find(otherShape => otherShape.equals(shape)) finds one
             \E o \in DOMAIN other.shapes :
                 shapeEquals(other.shapes[o], this.shapes[s])

\* rotateX(deg) with the pivot 'center'
rotateX(this, deg) ==
    LET pivot == ShapeCollection_center(this)
    IN  IF pivot.threw THEN Thrown(this)
        ELSE ReturnsThis(forEachShape(this,
                 [op |-> "rotateX", n |-> deg,
                  p |-> IF pivot.ret = <<>> THEN <<>> ELSE pivot.ret[1]]))

\* rotateY(deg) with the pivot 'center'
rotateY(this, deg) ==
    LET pivot == ShapeCollection_center(this)
    IN  IF pivot.threw THEN Thrown(this)
        ELSE ReturnsThis(forEachShape(this,
                 [op |-> "rotateY", n |-> deg,
                  p |-> IF pivot.ret = <<>> THEN <<>> ELSE pivot.ret[1]]))

\* rotateZ(deg) with the pivot 'center'
rotateZ(this, deg) ==
    LET pivot == ShapeCollection_center(this)
    IN  IF pivot.threw THEN Thrown(this)
        ELSE ReturnsThis(forEachShape(this,
                 [op |-> "rotateZ", n |-> deg,
                  p |-> IF pivot.ret = <<>> THEN <<>> ELSE pivot.ret[1]]))

\* rotateAround(angle) with the axis [0,0,1] and the pivot 'center'
rotateAround(this, angle) ==
    LET pivot == ShapeCollection_center(this)
    IN  IF pivot.threw THEN Thrown(this)
        ELSE ReturnsThis(forEachShape(this,
                 [op |-> "rotateAround", n |-> angle,
                  p |-> IF pivot.ret = <<>> THEN <<>> ELSE pivot.ret[1]]))

\* moveTo(to): this.center() is null for an empty collection and for one
\* Shape without a Bbox, and null.toVector() throws
moveTo(this, to) ==
    LET c == ShapeCollection_center(this)
    IN  IF c.threw \/ c.ret = <<>> THEN Thrown(this)
        ELSE LET moveVec == subtracted(to, c.ret[1])
             IN  ReturnsThis(forEachShape(this,
                     [op |-> "move", n |-> 0, p |-> moveVec]))

\* moveToOrigin(): this.moveTo(0,0,0), which returns this as well
moveToOrigin(this) == moveTo(this, <<0, 0, 0>>)

\* replaceShape(newShapes): shape.replaceShape(newShapes) on every Shape;
\* nothing is returned
replaceShape(this, newShapes) ==
    forEachShape(this, [op |-> "replaceShape", n |-> 0, p |-> <<>>])

\* the Shapes a collection refers to
refsOf(this) ==
    {this.shapes[i] : i \in DOMAIN this.shapes}
    \cup UNION {{this._groups[g][i] : i \in DOMAIN this._groups[g]} :
                   g \in DOMAIN this._groups}
    \cup {this.keys[i] : i \in DOMAIN this.keys}

\* a Shape object the caller holds, as it is now: the collection refers to
\* the caller's object itself, so what its calls did to the Shape they did
\* to the caller's
callersShape(this, shape) ==
    LET mine == {s \in refsOf(this) : s.id = shape.id}
    IN  IF mine = {} THEN shape ELSE CHOOSE s \in mine : TRUE

\* _defineGroup(name, shapes), shapes a ShapeCollection: the group becomes
\* shapes.toArray(), or what it held followed by that
_defineGroup(this, name, shapes) ==
    IF name = "" THEN this
    ELSE _setFakeGroupKeys(
             [this EXCEPT !._groups =
                 IF name \in DOMAIN this._groups
                 THEN [this._groups EXCEPT ![name] = @ \o shapes.shapes]
                 ELSE (name :> shapes.shapes) @@ this._groups])

\* checkSingle(): the one Shape of the collection, else the collection
checkSingle(this) == IF Len(this.shapes) = 1 THEN this.shapes[1] ELSE this

\* Shape._unioned(other): a new Shape of the type of shape that covers both
shapeUnioned(shape, other, id) ==
    IF shape.empty \/ other.empty
    THEN [(IF shape.empty THEN other ELSE shape) EXCEPT
             !.id = id, !.hash = id, !.type = shape.type,
             !.tf = @ \cup {"_unioned"}]
    ELSE [shape EXCEPT
             !.id = id, !.hash = id, !.tf = @ \cup {"_unioned"},
             !.lo = [a \in 1..3 |->
                        IF other.lo[a] < shape.lo[a] THEN other.lo[a]
                        ELSE shape.lo[a]],
             !.hi = [a \in 1..3 |->
                        IF other.hi[a] > shape.hi[a] THEN other.hi[a]
                        ELSE shape.hi[a]]]

\* _unioned(other): this.forEach from the Shape at index i on
RECURSIVE unionedFrom(_, _, _, _)
unionedFrom(result, shapes, i, used) ==
    IF i > Len(shapes) THEN result
    ELSE LET firstShape == shapes[1]
             shape == shapes[i]
         IN  IF shape.id # firstShape.id
             THEN unionedFrom(
                      add(result,
                          <<shapeUnioned(firstShape, shape,
                                FreshId(used \cup ObjectIdsOf(result.shapes)))>>),
                      shapes, i + 1, used)
             ELSE unionedFrom(result, shapes, i + 1, used)

\* _unioned(other); other is the empty tuple when none is given.  this is
\* the receiver afterwards, ret what is returned.  The objects the receiver
\* referred to when the call was made still exist when the new Shapes are
\* made
_unioned(this, other) ==
    LET withOther == IF other # <<>> THEN add(this, other) ELSE this
        result == unionedFrom(NewCollection, withOther.shapes, 1,
                              UsedIds(this) \cup UsedIds(withOther))
    IN  [this |-> withOther, ret |-> checkSingle(result)]

\* unioned(other)
unioned(this, other) == _unioned(this, other)

\* getShapesByType(type)
getShapesByType(this, type) ==
    newShapeCollection(
        <<[kind |-> "array",
           items |-> SelectSeq(this.shapes, LAMBDA s : s.type = type)]>>)

\* Wire._groupEdges(edges): two Edges are connected when they share an end
connected(e, f) == {e.lo, e.hi} \cap {f.lo, f.hi} # {}

\* the places of the Edges that the Edges at the places S lead to
RECURSIVE reach(_, _)
reach(edges, S) ==
    LET T == S \cup {j \in DOMAIN edges :
                        \E i \in S : connected(edges[i], edges[j])}
    IN  IF T = S THEN S ELSE reach(edges, T)

\* Wire._groupEdges(edges): the Edges in groups of connected ones, a group
\* standing where its first Edge stood
RECURSIVE _groupEdges(_)
_groupEdges(edges) ==
    IF edges = <<>> THEN <<>>
    ELSE LET S == reach(edges, {1})
             places == [i \in DOMAIN edges |-> i]
             pick(P) == [k \in DOMAIN P |-> edges[P[k]]]
         IN  <<pick(SelectSeq(places, LAMBDA i : i \in S))>>
             \o _groupEdges(pick(SelectSeq(places, LAMBDA i : i \notin S)))

\* new Wire().fromEdges(edgeGroup): a new Shape that keeps its Edges
fromEdges(edgeGroup, id) ==
    [kind |-> "shape", id |-> id, hash |-> id, type |-> "Wire",
     empty |-> FALSE,
     lo |-> [a \in 1..3 |->
                CHOOSE x \in {edgeGroup[i].lo[a] : i \in DOMAIN edgeGroup} :
                    \A i \in DOMAIN edgeGroup : x <= edgeGroup[i].lo[a]],
     hi |-> [a \in 1..3 |->
                CHOOSE x \in {edgeGroup[i].hi[a] : i \in DOMAIN edgeGroup} :
                    \A i \in DOMAIN edgeGroup : x >= edgeGroup[i].hi[a]],
     cut |-> {}, tf |-> {}, edges |-> edgeGroup]

\* wires.forEach(w => wireEdges.concat(w.edges())), from the Wire at index
\* i on; Wire.edges() gives the Edges of the Wire
RECURSIVE wireEdgesFrom(_, _, _)
wireEdgesFrom(wireEdges, wires, i) ==
    IF i > Len(wires) THEN wireEdges
    ELSE wireEdgesFrom(
             concat(wireEdges,
                    newShapeCollection(
                        <<[kind |-> "array", items |-> wires[i].edges]>>)),
             wires, i + 1)

\* groupedEdges.forEach(edgeGroup => ...), from the group at index i on
RECURSIVE addGroupedFrom(_, _, _, _)
addGroupedFrom(this, groupedEdges, i, used) ==
    IF i > Len(groupedEdges) THEN this
    ELSE LET edgeGroup == groupedEdges[i]
         IN  addGroupedFrom(
                 IF Len(edgeGroup) = 1
                 THEN add(this, <<[kind |-> "array", items |-> edgeGroup]>>)
                 ELSE add(this, <<fromEdges(edgeGroup,
                                            FreshId(used \cup IdsIn(this)))>>),
                 groupedEdges, i + 1, used)

\* _connectLinearShapes(): edges.concat(wireEdges) adds the Edges of the
\* Wires to edges itself.  used: the identities of the objects that exist
\* when the call is made
_connectLinearShapes(this, used) ==
    LET wires == getShapesByType(this, "Wire")
        wireEdges == wireEdgesFrom(NewCollection, wires.shapes, 1)
        edges == concat(getShapesByType(this, "Edge"), wireEdges)
        allEdges == edges
    IN  IF Len(allEdges.shapes) <= 1 THEN this
        ELSE addGroupedFrom(remove(remove(this, edges), wires),
                            _groupEdges(edges.shapes), 1,
                            used \cup UsedIds(this))

\* upgrade(); used as for _connectLinearShapes
upgrade(this, used) == _connectLinearShapes(this, used)

\* combine(other), other a ShapeCollection: this.concat(other), then
\* this.upgrade(); the objects the receiver referred to before concat still
\* exist when upgrade makes a Wire
combine(this, other) == upgrade(concat(this, other), UsedIds(this))

\* upgraded(): this.upgrade().copy().  this is the receiver afterwards,
\* ret what is returned; the objects that upgrade took out of the receiver
\* still exist when the copies are made
upgraded(this) ==
    LET upgradedThis == upgrade(this, UsedIds(this))
    IN  [this |-> upgradedThis,
         ret |-> _copy(upgradedThis, UsedIds(this) \cup UsedIds(upgradedThis))]

----------------------------------------------------------------------------
(* The program: one Bbox instance at a time is the receiver (box); call is *)
(* the record of the call made last: its arguments, the receiver it was    *)
(* made on, and what it returned or whether it threw.  In the same way     *)
(* coll is the ShapeCollection instance that receives the calls and cop    *)
(* the record of the call made last on it; before is the receiver as it    *)
(* was when the call was made, ret the tuple of what the call returned     *)
(* (empty for null).                                                       *)

NoOp ==
    [op |-> "none", entities |-> <<>>, group |-> "", before |-> NewCollection,
     threw |-> FALSE, ret |-> <<>>]

NoCall ==
    [op |-> "none", a |-> NULL, b |-> NULL, recv |-> NewInstance,
     arg |-> NewInstance, shape |-> Vertex(NULL), amount |-> 0,
     sides |-> <<>>, where |-> <<>>,
     threw |-> FALSE, ret |-> "", retBox |-> NewInstance, retPoint |-> NULL]

\* the Bboxes handed to added() as its argument
ArgBoxes == {constructor(a, b) : a \in ArgPoints, b \in ArgPoints}

\* the Shapes handed to contains(): Vertices, and Shapes whose bbox() is one
\* of ArgBoxes
ArgShapes == {Vertex(p) : p \in Points} \cup {Solid(b) : b \in ArgBoxes}

\* new Bbox(a, b) for two points a, b
Init ==
    \E a \in Points, b \in Points :
        LET made == create(NewInstance, a, b)
        IN  /\ box = constructor(a, b)
            /\ call = [NoCall EXCEPT !.op = "new", !.a = a, !.b = b,
                                     !.ret = made.ret, !.retBox = made.this]
            /\ grown = 0
            /\ coll = NewCollection
            /\ cop = NoOp
            /\ calls = 0

\* the caller goes on with what the call returned: a returned Bbox is the
\* next receiver
Continue ==
    /\ call.op # "none"
    /\ box' = IF call.op \in {"added", "enlarged", "copy"} /\ ~call.threw
              THEN call.retBox ELSE box
    /\ call' = NoCall
    /\ UNCHANGED <<grown, coll, cop, calls>>

\* box.added(other)
Added(other) ==
    /\ call.op = "none"
    /\ call' = IF Throws(box) \/ Throws(other)
               THEN [NoCall EXCEPT !.op = "added", !.recv = box, !.arg = other,
                                   !.threw = TRUE]
               ELSE [NoCall EXCEPT !.op = "added", !.recv = box, !.arg = other,
                                   !.retBox = added(box, other)]
    /\ UNCHANGED <<box, grown, coll, cop, calls>>

\* box.enlarged(amount)
Enlarged(amount) ==
    /\ call.op = "none"
    /\ grown < MaxEnlarge
    /\ call' = IF Throws(box)
               THEN [NoCall EXCEPT !.op = "enlarged", !.recv = box,
                                   !.amount = amount, !.threw = TRUE]
               ELSE [NoCall EXCEPT !.op = "enlarged", !.recv = box,
                                   !.amount = amount,
                                   !.retBox = enlarged(box, amount)]
    /\ grown' = grown + 1
    /\ UNCHANGED <<box, coll, cop, calls>>

\* box.copy()
Copy ==
    /\ call.op = "none"
    /\ call' = IF Throws(box)
               THEN [NoCall EXCEPT !.op = "copy", !.recv = box, !.threw = TRUE]
               ELSE [NoCall EXCEPT !.op = "copy", !.recv = box,
                                   !.retBox = copy(box)]
    /\ UNCHANGED <<box, grown, coll, cop, calls>>

\* box.center()
Center ==
    /\ call.op = "none"
    /\ call' = IF Throws(box)
               THEN [NoCall EXCEPT !.op = "center", !.recv = box, !.threw = TRUE]
               ELSE [NoCall EXCEPT !.op = "center", !.recv = box,
                                   !.retPoint = center(box)]
    /\ UNCHANGED <<box, grown, coll, cop, calls>>

\* box.is2D()
Is2D ==
    /\ call.op = "none"
    /\ call' = IF Throws(box)
               THEN [NoCall EXCEPT !.op = "is2D", !.recv = box, !.threw = TRUE]
               ELSE [NoCall EXCEPT !.op = "is2D", !.recv = box,
                                   !.ret = IF is2D(box) THEN "true" ELSE "false"]
    /\ UNCHANGED <<box, grown, coll, cop, calls>>

\* box.axisMissingIn2D()
AxisMissingIn2D ==
    /\ call.op = "none"
    /\ call' = IF Throws(box)
               THEN [NoCall EXCEPT !.op = "axisMissingIn2D", !.recv = box,
                                   !.threw = TRUE]
               ELSE [NoCall EXCEPT !.op = "axisMissingIn2D", !.recv = box,
                                   !.ret = axisMissingIn2D(box)]
    /\ UNCHANGED <<box, grown, coll, cop, calls>>

\* box.contains(other)
Contains(other) ==
    /\ call.op = "none"
    /\ call' = IF Throws(box) \/ (other.type # "Vertex" /\ Throws(other.bbox))
               THEN [NoCall EXCEPT !.op = "contains", !.recv = box,
                                   !.shape = other, !.threw = TRUE]
               ELSE [NoCall EXCEPT !.op = "contains", !.recv = box,
                                   !.shape = other,
                                   !.ret = IF contains(box, other)
                                           THEN "true" ELSE "false"]
    /\ UNCHANGED <<box, grown, coll, cop, calls>>

\* box.corner(where), where written from the keyword list sides in a style
Corner(sides, style) ==
    /\ call.op = "none"
    /\ LET where == WhereString(sides, style)
       IN  call' = IF Throws(box)
                   THEN [NoCall EXCEPT !.op = "corner", !.recv = box,
                                       !.sides = sides, !.where = where,
                                       !.threw = TRUE]
                   ELSE [NoCall EXCEPT !.op = "corner", !.recv = box,
                                       !.sides = sides, !.where = where,
                                       !.retPoint = corner(box, where)]
    /\ UNCHANGED <<box, grown, coll, cop, calls>>

Next ==
    \/ Continue
    \/ \E other \in ArgBoxes \cup {box} : Added(other)
    \/ \E amount \in Amounts : Enlarged(amount)
    \/ Copy
    \/ Center
    \/ Is2D
    \/ AxisMissingIn2D
    \/ \E other \in ArgShapes \cup {Solid(box)} : Contains(other)

Spec == Init /\ [][Next]_vars

\* the same program, asked for corners
NextCorner ==
    \/ Continue
    \/ \E sides \in SideLists, style \in Styles : Corner(sides, style)

SpecCorner == Init /\ [][NextCorner]_vars

----------------------------------------------------------------------------
(* The program using a ShapeCollection *)

\* most Shapes the collection is let grow to
MaxShapes == 3
\* number of calls made on the collection after its construction
MaxCalls == 3

\* what the callers put into a batch
Null == [kind |-> "null"]
Coords == [kind |-> "coords", at |-> <<4, 6, 8>>]
Unknown == [kind |-> "unknown"]
Given == [kind |-> "collection", shapes |-> <<V2, S1>>]
Nested ==
    [kind |-> "array",
     items |-> <<Coords, [kind |-> "array", items |-> <<Null, E1>>]>>]
Elements == {Null, Coords, Unknown, V1, E1, Z1, Given, Nested}

\* the batches: Arrays of one or two elements
Batches == UNION {[1..n -> Elements] : n \in 1..2}

\* group names
GroupNames == {"g", "h"}

\* the Bbox variables while the program works on a collection
NoBbox == box = NewInstance /\ call = NoCall /\ grown = 0

\* new ShapeCollection() and new ShapeCollection(batch)
InitColl ==
    /\ NoBbox
    /\ \E batch \in Batches \cup {<<>>} :
           /\ coll = newShapeCollection(batch)
           /\ cop = [NoOp EXCEPT !.op = "new", !.entities = batch]
    /\ calls = 0

\* the caller goes on with the collection
CollContinue ==
    /\ cop.op # "none"
    /\ cop' = NoOp
    /\ UNCHANGED <<box, call, grown, coll, calls>>

\* coll.add(batch)
Add(batch) ==
    /\ cop.op = "none"
    /\ calls < MaxCalls
    /\ Len(add(coll, batch).shapes) <= MaxShapes
    /\ coll' = add(coll, batch)
    /\ cop' = [NoOp EXCEPT !.op = "add", !.entities = batch, !.before = coll]
    /\ calls' = calls + 1
    /\ UNCHANGED <<box, call, grown>>

\* coll.addGroup(group, batch)
AddGroup(group, batch) ==
    /\ cop.op = "none"
    /\ calls < MaxCalls
    /\ Len(addGroup(coll, group, batch).shapes) <= MaxShapes
    /\ coll' = addGroup(coll, group, batch)
    /\ cop' = [NoOp EXCEPT !.op = "addGroup", !.entities = batch,
                           !.group = group, !.before = coll]
    /\ calls' = calls + 1
    /\ UNCHANGED <<box, call, grown>>

NextColl ==
    \/ CollContinue
    \/ \E batch \in Batches : Add(batch)
    \/ \E group \in GroupNames, batch \in Batches : AddGroup(group, batch)

SpecColl == InitColl /\ [][NextColl]_vars

\* the same program making every kind of mutating call, with fewer
\* different arguments

\* the Shapes handed to push and prepend
PushShapes == {V1, E1, Z1}
\* the collections handed to remove
RemoveArgs ==
    {[kind |-> "collection", shapes |-> <<E1>>],
     [kind |-> "collection", shapes |-> <<V1, S1>>]}
\* the operands handed to subtract
SubtractArgs == {S1, Given}
\* the batches handed to add and addGroup
AddArgs == {<<E1>>, <<Coords, Z1>>, <<Given>>}

\* a call that takes no arguments or one: coll becomes after
Mutate(op, arg, after) ==
    /\ cop.op = "none"
    /\ calls < MaxCalls
    /\ \E made \in {after} :
           /\ Len(made.shapes) <= MaxShapes
           /\ coll' = made
    /\ cop' = [NoOp EXCEPT !.op = op, !.entities = arg, !.before = coll]
    /\ calls' = calls + 1
    /\ UNCHANGED <<box, call, grown>>

\* coll.concat(other)
Concat(other) == Mutate("concat", <<other>>, concat(coll, other))

\* coll.push(shape)
Push(shape) == Mutate("push", <<shape>>, push(coll, shape))

\* coll.prepend(shape)
Prepend(shape) == Mutate("prepend", <<shape>>, prepend(coll, shape))

\* coll.pop()
Pop == Mutate("pop", <<>>, pop(coll))

\* coll.reverse()
Reverse == Mutate("reverse", <<>>, reverse(coll))

\* coll.sort((a, b) => a._hashcode() - b._hashcode())
Sort == Mutate("sort", <<>>, sort(coll))

\* coll.remove(shapes)
Remove(shapes) == Mutate("remove", <<shapes>>, remove(coll, shapes))

\* coll.isEmpty()
IsEmpty == Mutate("isEmpty", <<>>, isEmpty(coll))

\* coll.replace(shapes, newShapes)
Replace(shapes, newShapes) ==
    Mutate("replace", <<shapes, newShapes>>, replace(coll, shapes, newShapes))

\* coll.subtract(other)
Subtract(other) == Mutate("subtract", <<other>>, subtract(coll, other))

\* coll.checkDowngrade()
CheckDowngrade == Mutate("checkDowngrade", <<>>, checkDowngrade(coll))

\* coll.distinct()
Distinct == Mutate("distinct", <<>>, distinct(coll))

\* coll._removeContained()
RemoveContained == Mutate("_removeContained", <<>>, _removeContained(coll))

\* coll.fromAll(batch)
FromAll(batch) == Mutate("fromAll", batch, fromAll(coll, batch))

\* the collections handed to _defineGroup
DefineGroupArgs ==
    {[kind |-> "collection", shapes |-> <<E1>>],
     [kind |-> "collection", shapes |-> <<S1>>]}

\* coll._defineGroup(name, shapes)
DefineGroup(name, shapes) ==
    /\ cop.op = "none"
    /\ calls < MaxCalls
    /\ coll' = _defineGroup(coll, name, shapes)
    /\ cop' = [NoOp EXCEPT !.op = "_defineGroup", !.entities = <<shapes>>,
                           !.group = name, !.before = coll]
    /\ calls' = calls + 1
    /\ UNCHANGED <<box, call, grown>>

\* the operands handed to unioned: none, a Shape, a collection
UnionedArgs == {<<>>, <<E1>>, <<Given>>}

\* coll.unioned(other)
Unioned(other) ==
    /\ cop.op = "none"
    /\ calls < MaxCalls
    /\ LET done == unioned(coll, other)
       IN  /\ Len(done.this.shapes) <= MaxShapes
           /\ coll' = done.this
           /\ cop' = [NoOp EXCEPT !.op = "unioned", !.entities = other,
                                  !.before = coll, !.ret = <<done.ret>>]
    /\ calls' = calls + 1
    /\ UNCHANGED <<box, call, grown>>

\* the collections handed to combine
CombineArgs == {[kind |-> "collection", shapes |-> <<E2>>], Given}

\* coll.combine(other)
Combine(other) == Mutate("combine", <<other>>, combine(coll, other))

\* coll.upgrade()
Upgrade == Mutate("upgrade", <<>>, upgrade(coll, UsedIds(coll)))

\* coll.upgraded()
Upgraded ==
    /\ cop.op = "none"
    /\ calls < MaxCalls
    /\ LET done == upgraded(coll)
       IN  /\ coll' = done.this
           /\ cop' = [NoOp EXCEPT !.op = "upgraded", !.before = coll,
                                  !.ret = <<done.ret>>]
    /\ calls' = calls + 1
    /\ UNCHANGED <<box, call, grown>>

\* coll.bbox()
BboxOf ==
    /\ cop.op = "none"
    /\ LET got == ShapeCollection_bbox(coll)
       IN  cop' = [NoOp EXCEPT !.op = "bbox", !.before = coll,
                               !.threw = got.threw, !.ret = got.ret]
    /\ UNCHANGED <<box, call, grown, coll, calls>>

\* coll.center()
CenterOf ==
    /\ cop.op = "none"
    /\ LET got == ShapeCollection_center(coll)
       IN  cop' = [NoOp EXCEPT !.op = "center", !.before = coll,
                               !.threw = got.threw, !.ret = got.ret]
    /\ UNCHANGED <<box, call, grown, coll, calls>>

NextMut ==
    \/ CollContinue
    \/ \E batch \in AddArgs : Add(batch)
    \/ \E batch \in AddArgs : AddGroup("g", batch)
    \/ Concat(Given)
    \/ \E shape \in PushShapes : Push(shape)
    \/ \E shape \in PushShapes : Prepend(shape)
    \/ Pop
    \/ Reverse
    \/ Sort
    \/ \E shapes \in RemoveArgs : Remove(shapes)
    \/ IsEmpty
    \/ \E shapes \in RemoveArgs : Replace(shapes, Given)
    \/ \E other \in SubtractArgs : Subtract(other)
    \/ CheckDowngrade
    \/ Distinct
    \/ RemoveContained
    \/ \E batch \in AddArgs : FromAll(batch)
    \/ \E name \in {"", "g"} : \E shapes \in DefineGroupArgs :
           DefineGroup(name, shapes)
    \/ \E other \in UnionedArgs : Unioned(other)
    \/ \E other \in CombineArgs : Combine(other)
    \/ Upgrade
    \/ Upgraded
    \/ BboxOf
    \/ CenterOf

SpecMut == InitColl /\ [][NextMut]_vars

\* the same program making the bulk geometric calls

\* the entities the collections of this program are constructed from
BulkBatches == {<<>>, <<V1>>, <<E1, S1>>, <<V1, V2>>, <<Coords, E1>>, <<E1, E1>>}
\* the offsets handed to the mirrors: none, 0 and 0.6
BulkOffsets == {<<>>, <<0>>, <<6>>}

\* new ShapeCollection(batch)
InitBulk ==
    /\ NoBbox
    /\ \E batch \in BulkBatches :
           /\ coll = newShapeCollection(batch)
           /\ cop = [NoOp EXCEPT !.op = "new", !.entities = batch]
    /\ calls = 0

\* a bulk call with the arguments args that does what done tells; ret is
\* the collection returned and whether it is the receiver itself
Bulk(op, args, done) ==
    /\ cop.op = "none"
    /\ calls < MaxCalls
    /\ \E did \in {done} :
           /\ coll' = did.this
           /\ cop' = [NoOp EXCEPT !.op = op, !.entities = args,
                                  !.before = coll, !.threw = did.threw,
                                  !.ret = IF did.threw THEN <<>>
                                          ELSE <<[self |-> did.self,
                                                  value |-> did.ret]>>]
    /\ calls' = calls + 1
    /\ UNCHANGED <<box, call, grown>>

\* coll.move(vector)
Move(vector) == Bulk("move", <<vector>>, move(coll, vector))
\* coll.moved(vector)
Moved(vector) == Bulk("moved", <<vector>>, moved(coll, vector))
\* coll.rotateEuler(0, 0, degZ)
RotateEuler(degZ) == Bulk("rotateEuler", <<degZ>>, rotateEuler(coll, degZ))
\* coll.rotatedEuler(0, 0, degZ)
RotatedEuler(degZ) == Bulk("rotatedEuler", <<degZ>>, rotatedEuler(coll, degZ))
\* coll.scale(factor)
Scale(factor) == Bulk("scale", <<factor>>, scale(coll, factor))
\* coll.scaled(factor)
Scaled(factor) == Bulk("scaled", <<factor>>, scaled(coll, factor))
\* coll.mirrorX(offset)
MirrorX(o) == Bulk("mirrorX", <<o>>, mirrorX(coll, o))
\* coll.mirroredX(offset)
MirroredX(o) == Bulk("mirroredX", <<o>>, mirroredX(coll, o))
\* coll.mirrorY(offset)
MirrorY(o) == Bulk("mirrorY", <<o>>, mirrorY(coll, o))
\* coll.mirroredY(offset)
MirroredY(o) == Bulk("mirroredY", <<o>>, mirroredY(coll, o))
\* coll.mirrorZ(offset)
MirrorZ(o) == Bulk("mirrorZ", <<o>>, mirrorZ(coll, o))
\* coll.mirroredZ(offset)
MirroredZ(o) == Bulk("mirroredZ", <<o>>, mirroredZ(coll, o))
\* coll.offset(amount)
Offset(amount) == Bulk("offset", <<amount>>, offset(coll, amount))
\* coll.offsetted(amount)
Offsetted(amount) == Bulk("offsetted", <<amount>>, offsetted(coll, amount))
\* coll.extrude(amount)
Extrude(amount) == Bulk("extrude", <<amount>>, extrude(coll, amount))
\* coll.extruded(amount)
Extruded(amount) == Bulk("extruded", <<amount>>, extruded(coll, amount))
\* coll.thicken(amount)
Thicken(amount) == Bulk("thicken", <<amount>>, thicken(coll, amount))
\* coll.thickened(amount)
Thickened(amount) == Bulk("thickened", <<amount>>, thickened(coll, amount))

\* coll.unique()
Unique == Bulk("unique", <<>>, unique(coll))

\* the collections handed to equals: new ShapeCollection(...) of Shapes
\* the caller holds
EqualsArgs ==
    {newShapeCollection(<<callersShape(coll, V1), callersShape(coll, E1)>>),
     newShapeCollection(<<callersShape(coll, V1), callersShape(coll, V2)>>),
     newShapeCollection(<<callersShape(coll, S1), callersShape(coll, E1)>>)}

\* coll.equals(other)
Equals(other) ==
    /\ cop.op = "none"
    /\ cop' = [NoOp EXCEPT !.op = "equals", !.entities = <<other>>,
                           !.before = coll, !.ret = <<equals(coll, other)>>]
    /\ UNCHANGED <<box, call, grown, coll, calls>>

\* coll._mirroredX(offset)
MirroredX_(o) == Bulk("_mirroredX", <<o>>, _mirroredX(coll, o))
\* coll._mirroredY(offset)
MirroredY_(o) == Bulk("_mirroredY", <<o>>, _mirroredY(coll, o))
\* coll._mirroredZ(offset)
MirroredZ_(o) == Bulk("_mirroredZ", <<o>>, _mirroredZ(coll, o))

\* coll.rotate(r)
Rotate(r) == Bulk("rotate", <<r>>, rotate(coll, r))

\* coll.rotateX(deg)
RotateX(deg) == Bulk("rotateX", <<deg>>, rotateX(coll, deg))
\* coll.rotateY(deg)
RotateY(deg) == Bulk("rotateY", <<deg>>, rotateY(coll, deg))
\* coll.rotateZ(deg)
RotateZ(deg) == Bulk("rotateZ", <<deg>>, rotateZ(coll, deg))
\* coll.rotateAround(angle)
RotateAround(angle) == Bulk("rotateAround", <<angle>>, rotateAround(coll, angle))
\* coll.moveTo(to)
MoveTo(to) == Bulk("moveTo", <<to>>, moveTo(coll, to))
\* coll.moveToOrigin()
MoveToOrigin == Bulk("moveToOrigin", <<>>, moveToOrigin(coll))

\* coll.replaceShape(newShapes)
ReplaceShape(newShapes) ==
    /\ cop.op = "none"
    /\ calls < MaxCalls
    /\ coll' = replaceShape(coll, newShapes)
    /\ cop' = [NoOp EXCEPT !.op = "replaceShape", !.entities = <<newShapes>>,
                           !.before = coll]
    /\ calls' = calls + 1
    /\ UNCHANGED <<box, call, grown>>

\* coll.lowestType()
LowestType ==
    /\ cop.op = "none"
    /\ cop' = [NoOp EXCEPT !.op = "lowestType", !.before = coll,
                           !.ret = lowestType(coll)]
    /\ UNCHANGED <<box, call, grown, coll, calls>>

NextBulk ==
    \/ CollContinue
    \/ Move(<<4, 0, 0>>)
    \/ Moved(<<4, 0, 0>>)
    \/ RotateEuler(180)
    \/ RotatedEuler(180)
    \/ Scale(2)
    \/ Scaled(2)
    \/ \E o \in BulkOffsets : MirrorX(o)
    \/ \E o \in BulkOffsets : MirroredX(o)
    \/ \E o \in BulkOffsets : MirrorY(o)
    \/ \E o \in BulkOffsets : MirroredY(o)
    \/ \E o \in BulkOffsets : MirrorZ(o)
    \/ \E o \in BulkOffsets : MirroredZ(o)
    \/ \E o \in BulkOffsets : MirroredX_(o)
    \/ \E o \in BulkOffsets : MirroredY_(o)
    \/ \E o \in BulkOffsets : MirroredZ_(o)
    \/ Offset(2)
    \/ Offsetted(2)
    \/ Extrude(2)
    \/ Extruded(2)
    \/ Thicken(2)
    \/ Thickened(2)
    \/ Rotate(<<180, 0, 90>>)
    \/ RotateX(180)
    \/ RotateY(180)
    \/ RotateZ(180)
    \/ RotateAround(180)
    \/ MoveTo(<<8, 6, 8>>)
    \/ MoveToOrigin

SpecBulk == InitBulk /\ [][NextBulk]_vars

\* the same program moving and mirroring its Shapes in place and making
\* the calls that look at the Shapes: unique, equals, lowestType,
\* replaceShape
NextLook ==
    \/ CollContinue
    \/ Move(<<4, 0, 0>>)
    \/ \E o \in BulkOffsets : MirrorX(o)
    \/ Scale(2)
    \/ Unique
    \/ ReplaceShape(callersShape(coll, E1))
    \/ LowestType
    \/ \E other \in EqualsArgs : Equals(other)

SpecLook == InitBulk /\ [][NextLook]_vars

----------------------------------------------------------------------------
(* Claims *)

Ordered(b) == b[1] <= b[2] /\ b[3] <= b[4] /\ b[5] <= b[6]

\* C1: whenever create succeeds (corners in any order), and for every Bbox
\* with defined bounds that added, enlarged or copy returns, each lower
\* bound is at most the upper bound of its axis.
C1_BoundsOrdered ==
    /\ box.bounds # NULL => Ordered(box.bounds)
    /\ call.retBox.bounds # NULL => Ordered(call.retBox.bounds)

\* create has normalised corners given in the opposite order on every axis
C1_Witness ==
    /\ call.op = "new"
    /\ call.a[1] > call.b[1] /\ call.a[2] > call.b[2] /\ call.a[3] > call.b[3]
    /\ box.bounds # NULL
    /\ box.bounds[1] = call.b[1] /\ box.bounds[6] = call.a[3]

\* C2: new Bbox(a, b) and new Bbox(b, a) both fail or both succeed with the
\* same six bounds.
C2_OrderIndependent ==
    call.op = "new" /\ call.a # call.b =>
        constructor(call.b, call.a).bounds = box.bounds

Midpoint(a, b) ==
    <<(a[1] + b[1]) \div 2, (a[2] + b[2]) \div 2, (a[3] + b[3]) \div 2>>

\* C3: for a # b, new Bbox(a, b).center() is the componentwise midpoint of
\* a and b.
C3_CenterIsMidpoint ==
    call.op = "new" /\ call.a # call.b =>
        /\ ~Throws(box)
        /\ center(box) = Midpoint(call.a, call.b)

Lower(x, y) == IF x <= y THEN x ELSE y
Upper(x, y) == IF x >= y THEN x ELSE y

\* the per-axis union of two bounds tuples
UnionBounds(p, q) ==
    <<Lower(p[1], q[1]), Upper(p[2], q[2]), Lower(p[3], q[3]),
      Upper(p[4], q[4]), Lower(p[5], q[5]), Upper(p[6], q[6])>>

\* C4: for Bboxes p, q with defined bounds, p.added(q) has on each axis the
\* smaller of the two lower bounds and the larger of the two upper bounds.
C4_AddedIsUnion ==
    call.op = "added" /\ ~call.threw =>
        call.retBox.bounds = UnionBounds(call.recv.bounds, call.arg.bounds)

\* C5: b.added(b) has the same six bounds as b.
C5_AddedIdempotent ==
    call.op = "added" /\ ~call.threw /\ call.arg = call.recv =>
        call.retBox.bounds = call.recv.bounds

\* a dimension that is2D's test counts as flat
Flat(d) == d <= TOLERANCE_2D + SHAPE_TOLERANCE

\* the first flat axis under is2D's test, in the order height, width, depth
FirstFlatAxis(p) ==
    IF Flat(height(p)) THEN "z" ELSE IF Flat(width(p)) THEN "x" ELSE "y"

\* the dimension of a Bbox along an axis
Dimension(p, axis) ==
    CASE axis = "x" -> width(p)
      [] axis = "y" -> depth(p)
      [] axis = "z" -> height(p)

\* C6: for k > 0, enlarged(k) makes every dimension that is not flat larger
\* by exactly 2k, and a 2D receiver's result is 2D again, with the
\* dimension along the receiver's flat axis unchanged.
C6_EnlargedGrowsBy2k ==
    call.op = "enlarged" /\ ~call.threw /\ call.amount > 0 =>
        LET p == call.recv
            r == call.retBox
            k == call.amount
        IN  /\ ~Throws(r)
            /\ ~Flat(width(p)) => width(r) = width(p) + 2 * k
            /\ ~Flat(depth(p)) => depth(r) = depth(p) + 2 * k
            /\ ~Flat(height(p)) => height(r) = height(p) + 2 * k
            /\ is2D(p) =>
                   /\ is2D(r)
                   /\ Dimension(r, FirstFlatAxis(p))
                          = Dimension(p, FirstFlatAxis(p))

\* C7: new Bbox(p, p) does not throw; create returns null and leaves
\* bounds, position and the kernel box unset.
C7_CoincidentFails ==
    call.op = "new" /\ call.a = call.b =>
        /\ ~call.threw
        /\ call.ret = "null"
        /\ box.bounds = NULL /\ box.position = NULL /\ box.ocBbox = NULL

\* a Bbox has been constructed from one point given twice
C7_Witness ==
    /\ call.op = "new" /\ call.a = call.b /\ call.a = <<4, 6, 8>>
    /\ call.ret = "null" /\ box = NewInstance

\* the keyword list of the call names this side
Names(side) == \E i \in DOMAIN call.sides : call.sides[i] = side

\* the point that the named sides select
Selected(b) ==
    <<IF Names("right") THEN b[2] ELSE b[1],
      IF Names("back") THEN b[4] ELSE b[3],
      IF Names("top") THEN b[6] ELSE b[5]>>

\* C8: on a 3D Bbox, corner(where) with at most one side per axis named, in
\* any order and letter case, is the point of the right / back / top bounds
\* where named and of the left / front / bottom bounds otherwise;
\* 'leftfrontbottom' gives min() and 'rightbacktop' gives max().
C8_Corner3D ==
    call.op = "corner" /\ ~call.threw
        /\ ~isPoint(call.recv) /\ ~is2D(call.recv) =>
        /\ call.retPoint = Selected(call.recv.bounds)
        /\ call.sides = <<"left", "front", "bottom">> =>
               call.retPoint = min(call.recv)
        /\ call.sides = <<"right", "back", "top">> =>
               call.retPoint = max(call.recv)

\* corner('TOPRIGHTFRONT') has been asked of a 3D Bbox
C8_Witness ==
    /\ call.op = "corner" /\ ~call.threw
    /\ ~isPoint(call.recv) /\ ~is2D(call.recv)
    /\ call.sides = <<"top", "right", "front">>
    /\ call.where[1] = "T" /\ call.where[2] = "O"
    /\ call.retPoint = <<call.recv.bounds[2], call.recv.bounds[3],
                         call.recv.bounds[6]>>

\* C9: on a 2D Bbox that is flat along exactly one axis, corner(where)
\* returns the selected bounds on the two other axes.
C9_Corner2D ==
    call.op = "corner" /\ ~call.threw
        /\ ~isPoint(call.recv) /\ is2D(call.recv) =>
        LET p == call.recv
            sel == Selected(p.bounds)
            onlyX == Flat(width(p)) /\ ~Flat(depth(p)) /\ ~Flat(height(p))
            onlyY == ~Flat(width(p)) /\ Flat(depth(p)) /\ ~Flat(height(p))
            onlyZ == ~Flat(width(p)) /\ ~Flat(depth(p)) /\ Flat(height(p))
        IN  /\ onlyX => call.retPoint[2] = sel[2] /\ call.retPoint[3] = sel[3]
            /\ onlyY => call.retPoint[1] = sel[1] /\ call.retPoint[3] = sel[3]
            /\ onlyZ => call.retPoint[1] = sel[1] /\ call.retPoint[2] = sel[2]

\* C10: axisMissingIn2D() is null exactly when is2D() is false, and otherwise
\* the first axis that is flat under is2D's test, tried as z, x, y.
C10_AxisMissing ==
    call.op = "axisMissingIn2D" /\ ~call.threw =>
        /\ call.ret = "null" <=> ~is2D(call.recv)
        /\ is2D(call.recv) => call.ret = FirstFlatAxis(call.recv)

\* the point p lies between the bounds b of each axis
Within(p, b) ==
    /\ b[1] <= p[1] /\ p[1] <= b[2]
    /\ b[3] <= p[2] /\ p[2] <= b[4]
    /\ b[5] <= p[3] /\ p[3] <= b[6]

\* C11: contains(v) of a Vertex v is true exactly when each coordinate of v
\* lies between the bounds of its own axis; contains(s) of any other Shape s
\* is _containsBbox(s.bbox()).
C11_Contains ==
    call.op = "contains" /\ ~call.threw =>
        IF call.shape.type = "Vertex"
        THEN (call.ret = "true") <=> Within(call.shape.at, call.recv.bounds)
        ELSE (call.ret = "true") <=> _containsBbox(call.recv, call.shape.bbox)

\* C12: _containsBbox is a preorder on Bboxes with defined bounds: every
\* such box contains itself, and a box that contains a second box contains
\* every box the second one contains.
C12_ContainsPreorder ==
    call.op = "contains" /\ ~call.threw /\ call.shape.type # "Vertex" =>
        /\ _containsBbox(call.recv, call.recv)
        /\ _containsBbox(call.shape.bbox, call.shape.bbox)
        /\ \A third \in ArgBoxes \cup {call.recv} :
               /\ ~Throws(third)
               /\ call.ret = "true"
               /\ _containsBbox(call.shape.bbox, third)
               => _containsBbox(call.recv, third)

\* a box was found to contain a different box, which contains a third one
C12_Witness ==
    /\ call.op = "contains" /\ ~call.threw /\ call.shape.type # "Vertex"
    /\ call.ret = "true"
    /\ call.shape.bbox.bounds # call.recv.bounds
    /\ \E third \in ArgBoxes :
           /\ ~Throws(third)
           /\ third.bounds # call.shape.bbox.bounds
           /\ _containsBbox(call.shape.bbox, third)
           /\ _containsBbox(call.recv, third)

\* the Shapes a batch holds, in the order given: a Shape that is a Vertex
\* or not empty stands for itself, a collection for its Shapes, an Array
\* for those of its items; coordinates stand for one Vertex to be made
RECURSIVE Valid(_)
Valid(entities) ==
    IF entities = <<>> THEN <<>>
    ELSE LET e == Head(entities)
             own == CASE e.kind = "shape" ->
                            IF e.type = "Vertex" \/ ~e.empty THEN <<e>> ELSE <<>>
                      [] e.kind = "coords" -> <<e>>
                      [] e.kind = "collection" -> e.shapes
                      [] e.kind = "array" -> Valid(e.items)
                      [] OTHER -> <<>>
         IN  own \o Valid(Tail(entities))

\* the sequence got stands for the sequence want of Valid entities: the
\* same Shape objects, and for coordinates a Vertex there that is no object
\* of old
StandsFor(got, want, old) ==
    /\ Len(got) = Len(want)
    /\ \A i \in DOMAIN want :
           IF want[i].kind = "coords"
           THEN /\ got[i].kind = "shape" /\ got[i].type = "Vertex"
                /\ got[i].lo = want[i].at /\ got[i].hi = want[i].at
                /\ got[i].id \notin old
                /\ \A j \in DOMAIN got : got[j].id = got[i].id => j = i
           ELSE got[i] = want[i]

\* C14: _addEntities does not abort on a batch that mixes valid entities
\* with null, empty and unclassifiable elements: it appends exactly the
\* valid ones, in input order, after the Shapes that were there before.
C14_AddEntitiesSkipsBad ==
    cop.op \in {"add", "addGroup"} =>
        /\ ~cop.threw
        /\ Len(coll.shapes) >= Len(cop.before.shapes)
        /\ SubSeq(coll.shapes, 1, Len(cop.before.shapes)) = cop.before.shapes
        /\ StandsFor(SubSeq(coll.shapes, Len(cop.before.shapes) + 1,
                            Len(coll.shapes)),
                     Valid(cop.entities),
                     UsedIds(cop.before))

\* a batch of a valid Shape between a null and an empty Shape was added to
\* a collection that held Shapes
C14_Witness ==
    /\ cop.op = "add"
    /\ cop.entities = <<Nested, Z1>>
    /\ cop.before.shapes # <<>>
    /\ Len(coll.shapes) = Len(cop.before.shapes) + 2

\* C15: addGroup(g, Y) on a collection whose group g holds X, put there by
\* addGroup(g, X), leaves group g holding X followed by the Shapes of Y.
C15_GroupsMerge ==
    cop.op = "addGroup" =>
        LET held == IF cop.group \in DOMAIN cop.before._groups
                    THEN cop.before._groups[cop.group] ELSE <<>>
        IN  /\ cop.group \in DOMAIN coll._groups
            /\ Len(coll._groups[cop.group]) >= Len(held)
            /\ SubSeq(coll._groups[cop.group], 1, Len(held)) = held
            /\ StandsFor(SubSeq(coll._groups[cop.group], Len(held) + 1,
                                Len(coll._groups[cop.group])),
                         Valid(cop.entities),
                         UsedIds(cop.before))

\* C13: after construction and after every mutating call (add, addGroup,
\* concat, push, prepend, replace, remove, subtract, checkDowngrade,
\* distinct, ...) every member of shapes is a Shape, none a ShapeCollection.
C13_NoNestedCollection ==
    \A i \in DOMAIN coll.shapes : coll.shapes[i].kind = "shape"

\* a collection that held Shapes took in another collection, whose Shapes
\* are now its members
C13_Witness ==
    /\ cop.op \in {"add", "concat", "replace"}
    /\ cop.before.shapes # <<>>
    /\ \E i \in DOMAIN cop.entities : cop.entities[i] = Given
    /\ Len(coll.shapes) > 2
    /\ coll.shapes[Len(coll.shapes)] = S1

\* every Shape listed in a group of the collection c is a member of c.shapes
GroupsWithinShapes(c) ==
    \A g \in DOMAIN c._groups :
        \A i \in DOMAIN c._groups[g] :
            \E j \in DOMAIN c.shapes : c.shapes[j].id = c._groups[g][i].id

\* C16: addGroup, add, remove, pop, isEmpty, distinct, subtract and replace
\* keep every Shape listed in a group of _groups a member of shapes.
C16_GroupsWithinShapes ==
    /\ cop.op = "new" => GroupsWithinShapes(coll)
    /\ /\ cop.op \in {"addGroup", "add", "remove", "pop", "isEmpty",
                      "distinct", "subtract", "replace"}
       /\ GroupsWithinShapes(cop.before)
       => GroupsWithinShapes(coll)

\* the numeric index properties of the collection c mirror c.shapes
KeysMirrorShapes(c) ==
    /\ DOMAIN c.keys = 0..(Len(c.shapes) - 1)
    /\ \A i \in DOMAIN c.keys : c.keys[i].id = c.shapes[i + 1].id

\* C17: add, concat, push, pop, prepend, remove, isEmpty, reverse, sort,
\* distinct, subtract and _removeContained leave the numeric index
\* properties mirroring the sequence: collection[i] is shapes[i] for every
\* i below count(), and there is none at an index from count() on.
C17_KeysMirrorShapes ==
    /\ cop.op = "new" => KeysMirrorShapes(coll)
    /\ /\ cop.op \in {"add", "concat", "push", "pop", "prepend", "remove",
                      "isEmpty", "reverse", "sort", "distinct", "subtract",
                      "_removeContained"}
       /\ KeysMirrorShapes(cop.before)
       => KeysMirrorShapes(coll)

\* C19: on an empty ShapeCollection bbox() and center() both return null
\* and do not throw.
C19_EmptyReturnsNull ==
    cop.op \in {"bbox", "center"} /\ cop.before.shapes = <<>> =>
        ~cop.threw /\ cop.ret = <<>>

\* the bounds of the boxes of the Shapes from index i on that have one,
\* united axis by axis with the bounds acc
RECURSIVE UnionOfBoxes(_, _, _)
UnionOfBoxes(acc, shapes, i) ==
    IF i > Len(shapes) THEN acc
    ELSE IF shapes[i].empty THEN UnionOfBoxes(acc, shapes, i + 1)
    ELSE LET b == <<shapes[i].lo[1], shapes[i].hi[1],
                    shapes[i].lo[2], shapes[i].hi[2],
                    shapes[i].lo[3], shapes[i].hi[3]>>
         IN  UnionOfBoxes(IF acc = NULL THEN b ELSE UnionBounds(acc, b),
                          shapes, i + 1)

\* C20: bbox() of a collection in which at least one member yields a box
\* returns a Bbox with defined bounds, the union axis by axis of the boxes
\* of the members that yield one (members that yield none are skipped), so
\* that the result contains every member's box; also when the members are
\* points at the same location.
C20_BboxIsUnion ==
    /\ cop.op = "bbox"
    /\ \E i \in DOMAIN cop.before.shapes : ~cop.before.shapes[i].empty
    => /\ ~cop.threw
       /\ cop.ret # <<>>
       /\ cop.ret[1].bounds # NULL
       /\ cop.ret[1].bounds = UnionOfBoxes(NULL, cop.before.shapes, 1)
       /\ \A i \in DOMAIN cop.before.shapes :
              shapeBbox(cop.before.shapes[i]) # <<>> =>
                  _containsBbox(cop.ret[1], shapeBbox(cop.before.shapes[i])[1])

\* the copying variants of the bulk operations, the in-place ones, and the
\* transform a copying variant is to apply
CopyingVariants ==
    {"moved", "rotatedEuler", "scaled", "mirroredX", "mirroredY",
     "mirroredZ", "offsetted", "extruded", "thickened"}
InPlaceVariants ==
    {"move", "rotateEuler", "scale", "mirrorX", "mirrorY", "mirrorZ",
     "offset", "extrude", "thicken"}
TransformOf(op) ==
    CASE op = "moved" -> "move"
      [] op = "rotatedEuler" -> "rotateEuler"
      [] op = "scaled" -> "scale"
      [] op = "mirroredX" -> "mirrorX"
      [] op = "mirroredY" -> "mirrorY"
      [] op = "mirroredZ" -> "mirrorZ"
      [] op = "offsetted" -> "offset"
      [] op = "extruded" -> "extrude"
      [] op = "thickened" -> "thicken"

\* C18: a copying variant of a bulk operation that returns, returns an
\* instance other than the receiver; the entities of that instance are new
\* objects, one for each entity of the receiver, that underwent the
\* transform; and the receiver is as it was before the call.  An in-place
\* variant that returns, returns the receiver itself.
C18_CopyingReturnsNew ==
    /\ cop.op \in CopyingVariants /\ ~cop.threw =>
           LET returned == cop.ret[1]
           IN  /\ ~returned.self
               /\ Len(returned.value.shapes) = Len(cop.before.shapes)
               /\ \A i \in DOMAIN returned.value.shapes :
                      /\ TransformOf(cop.op) \in returned.value.shapes[i].tf
                      /\ returned.value.shapes[i].id
                             \notin IdsOf(cop.before.shapes)
               /\ coll = cop.before
    /\ cop.op \in InPlaceVariants /\ ~cop.threw => cop.ret[1].self

\* the Shapes of a sequence that are the first of their hash, in the order
\* they have in the sequence
FirstOfEachHash(shapes) ==
    LET firsts == SelectSeq([i \in DOMAIN shapes |-> i],
                            LAMBDA i : \A j \in 1..(i - 1) :
                                shapes[j].hash # shapes[i].hash)
    IN  [k \in DOMAIN firsts |-> shapes[firsts[k]]]

\* C21: after distinct() the collection holds, of the Shapes it held before,
\* the first one of every hash and no other, in the relative order they had
\* before; and a second distinct() changes nothing.
C21_DistinctKeepsFirst ==
    cop.op = "distinct" =>
        /\ coll.shapes = FirstOfEachHash(cop.before.shapes)
        /\ distinct(coll) = coll

\* C22: the collection that unique() returns holds, of the Shapes distinct()
\* kept, those that no earlier kept Shape is geometrically equal to, so
\* that no two of its Shapes are geometrically equal.
C22_UniqueNoEqualPair ==
    cop.op = "unique" =>
        LET kept == distinct(cop.before).shapes
            returned == cop.ret[1].value.shapes
            earliest == SelectSeq([i \in DOMAIN kept |-> i],
                                  LAMBDA i : \A j \in 1..(i - 1) :
                                      ~shapeEquals(kept[j], kept[i]))
        IN  /\ returned = [k \in DOMAIN earliest |-> kept[earliest[k]]]
            /\ \A i, j \in DOMAIN returned :
                   i # j => ~shapeEquals(returned[i], returned[j])

\* C30: unique() returns an instance other than the receiver, and the
\* receiver's shapes are after the call what they were before it, in
\* content and order.
C30_UniqueLeavesReceiver ==
    cop.op = "unique" =>
        /\ ~cop.ret[1].self
        /\ coll.shapes = cop.before.shapes

\* the place of a type in the ranking Solid > Shell > Face > Wire > Edge >
\* Vertex: 1 for Solid, 6 for Vertex
Rank(type) == CHOOSE n \in DOMAIN TYPES_ORDERED : TYPES_ORDERED[n] = type

\* C23 as stated: for a non-empty collection lowestType() returns the type
\* of the highest dimension among its members: a type that a member has
\* and that no member's type outranks.
C23_LowestTypeIsHighest ==
    cop.op = "lowestType" /\ coll.shapes # <<>> =>
        /\ cop.ret # <<>>
        /\ \E k \in DOMAIN coll.shapes : coll.shapes[k].type = cop.ret[1]
        /\ \A k \in DOMAIN coll.shapes :
               Rank(cop.ret[1]) <= Rank(coll.shapes[k].type)

\* C23 amended: for a non-empty collection lowestType() returns the type
\* of the lowest dimension among its members: a type that a member has
\* and that outranks no member's type.
C23_LowestTypeIsLowest ==
    cop.op = "lowestType" /\ coll.shapes # <<>> =>
        /\ cop.ret # <<>>
        /\ \E k \in DOMAIN coll.shapes : coll.shapes[k].type = cop.ret[1]
        /\ \A k \in DOMAIN coll.shapes :
               Rank(cop.ret[1]) >= Rank(coll.shapes[k].type)

\* lowestType() was called on a collection of a Solid and an Edge and
\* returned 'Edge'
C23_Witness ==
    /\ cop.op = "lowestType"
    /\ \E k \in DOMAIN coll.shapes : coll.shapes[k].type = "Solid"
    /\ \E k \in DOMAIN coll.shapes : coll.shapes[k].type = "Edge"
    /\ cop.ret = <<"Edge">>

\* C24: after subtract(other) the collection holds, for every entity it
\* held before (an empty Shape leaves nothing), one Shape: what is left of
\* that entity when all of other, the Shape or every Shape of the
\* collection, is subtracted from it.
C24_SubtractsFullOperand ==
    cop.op = "subtract" =>
        LET other == cop.entities[1]
            others == IF isAnyShape(other) THEN <<other>> ELSE other.shapes
            from == SelectSeq(cop.before.shapes,
                              LAMBDA shape : shape.type = "Vertex" \/ ~shape.empty)
        IN  /\ Len(coll.shapes) = Len(from)
            /\ \A i \in DOMAIN coll.shapes :
                   /\ i \in DOMAIN from
                   /\ coll.shapes[i].cut = from[i].cut \cup IdsOf(others)
                   /\ coll.shapes[i].type = from[i].type

\* C25: rotate(r) returns the receiver, and every Shape of the receiver
\* has then undergone rotateX, rotateY and rotateZ.
C25_RotateForwards ==
    cop.op = "rotate" /\ ~cop.threw =>
        /\ cop.ret[1].self
        /\ \A i \in DOMAIN coll.shapes :
               {"rotateX", "rotateY", "rotateZ"} \subseteq coll.shapes[i].tf

\* the mirror calls: the axis whose coordinate is mirrored, the transform
\* of the Shapes, and whether the call works in place
MirrorCalls ==
    {"mirrorX", "mirroredX", "_mirroredX", "mirrorY", "mirroredY",
     "_mirroredY", "mirrorZ", "mirroredZ", "_mirroredZ"}
MirrorAxis(op) ==
    CASE op \in {"mirrorX", "mirroredX", "_mirroredX"} -> 2
      [] op \in {"mirrorY", "mirroredY", "_mirroredY"} -> 1
      [] op \in {"mirrorZ", "mirroredZ", "_mirroredZ"} -> 3
MirrorOf(op) ==
    CASE op \in {"mirrorX", "mirroredX", "_mirroredX"} -> "mirrorX"
      [] op \in {"mirrorY", "mirroredY", "_mirroredY"} -> "mirrorY"
      [] op \in {"mirrorZ", "mirroredZ", "_mirroredZ"} -> "mirrorZ"

\* C26: a mirror call that returns has mirrored every entity about the
\* offset it was given (0 included) or, given none, about the coordinate of
\* the collection's center on the mirrored axis: the Shapes of the
\* receiver, for an in-place call, or of the collection returned, have the
\* extents that mirroring the receiver's Shapes about that offset gives.
\* In-place and copying calls so use the same offset for the same argument.
C26_MirrorAboutOffset ==
    LET given == cop.entities[1]
        c == ShapeCollection_center(cop.before)
    IN  /\ cop.op \in MirrorCalls /\ ~cop.threw
        /\ (given # <<>> \/ (~c.threw /\ c.ret # <<>>))
        => LET about == IF given # <<>> THEN given
                        ELSE <<c.ret[1][MirrorAxis(cop.op)]>>
               t == [op |-> MirrorOf(cop.op), n |-> 0, p |-> about]
               inPlace == cop.op \in {"mirrorX", "mirrorY", "mirrorZ"}
               mirrored ==
                   IF inPlace THEN forEachShape(cop.before, t).shapes
                   ELSE [i \in DOMAIN cop.before.shapes |->
                            shapeTransform(cop.before.shapes[i], t)]
               got == IF inPlace THEN coll.shapes
                      ELSE cop.ret[1].value.shapes
           IN  /\ Len(got) = Len(mirrored)
               /\ \A i \in DOMAIN got :
                      i \in DOMAIN mirrored
                      => got[i].lo = mirrored[i].lo /\ got[i].hi = mirrored[i].hi

\* C27: new Bbox(a, b) for two points a # b, in either order, succeeds:
\* create does not return null, the bounds are set, and on every axis on
\* which a and b differ the upper bound differs from the lower one.
C27_FailsOnlyCoincident ==
    call.op = "new" /\ call.a # call.b =>
        /\ call.ret # "null"
        /\ box.bounds # NULL
        /\ \A axis \in 1..3 :
               call.a[axis] # call.b[axis]
               => box.bounds[2 * axis] # box.bounds[2 * axis - 1]

\* C28: equals is symmetric: coll.equals(other) returns true exactly when
\* other.equals(coll) does.
C28_EqualsSymmetric ==
    cop.op = "equals" =>
        (cop.ret[1] <=> equals(cop.entities[1], cop.before))

\* C29: every Shape that _removeContained() drops is contained by a Shape
\* that the collection still holds afterwards, and a collection that held
\* a Shape still holds one.
C29_DroppedIsContained ==
    cop.op = "_removeContained" =>
        /\ \A p \in DOMAIN cop.before.shapes :
               cop.before.shapes[p].id \notin IdsOf(coll.shapes)
               => \E q \in DOMAIN coll.shapes :
                      shapeContains(coll.shapes[q], cop.before.shapes[p])
        /\ cop.before.shapes # <<>> => coll.shapes # <<>>

====
